---- MODULE Spec2Model ----
(***************************************************************************)
(* SecureText messenger: the mesh session service (socketService), the    *)
(* key and envelope cryptography (cryptoService) and the message dispatch  *)
(* of the application (App.tsx), as state machines.                        *)
(*                                                                         *)
(* Strings are sequences of code points, buffers are sequences of bytes,   *)
(* base64 texts are sequences of base64 characters (0..63 the alphabet,    *)
(* 64 the padding '=', 65 an ASCII blank, 66 any other character).         *)
(***************************************************************************)
EXTENDS Integers, Sequences, FiniteSets, TLC

(***************************************************************************)
(* String.prototype.trim / toLowerCase and the NodeId derivation           *)
(***************************************************************************)
\* the WhiteSpace and LineTerminator code points String.prototype.trim strips
IsSpace(c) ==
    c \in {9, 10, 11, 12, 13, 32, 160, 5760, 8232, 8233, 8239, 8287, 12288, 65279}
          \cup (8192..8202)

toLowerCase(s) == [i \in 1..Len(s) |-> IF s[i] \in 65..90 THEN s[i] + 32 ELSE s[i]]

RECURSIVE TrimLeft(_)
TrimLeft(s) == IF s # <<>> /\ IsSpace(Head(s)) THEN TrimLeft(Tail(s)) ELSE s

RECURSIVE TrimRight(_)
TrimRight(s) ==
    IF s # <<>> /\ IsSpace(s[Len(s)]) THEN TrimRight(SubSeq(s, 1, Len(s) - 1)) ELSE s

trim(s) == TrimRight(TrimLeft(s))

\* "ST-"
Prefix == <<83, 84, 45>>

\* `ST-${username.trim().toLowerCase()}`
NodeIdOf(username) == Prefix \o toLowerCase(trim(username))

\* `ST-${data.username.toLowerCase()}` (the re-keying derivation: no trim)
NodeIdNoTrim(username) == Prefix \o toLowerCase(username)

(***************************************************************************)
(* Results of operations that may throw                                    *)
(***************************************************************************)
Ok(v) == [ok |-> TRUE, v |-> v, err |-> ""]
Throw(e) == [ok |-> FALSE, v |-> <<>>, err |-> e]

(***************************************************************************)
(* TextEncoder / TextDecoder (UTF-8).  A string is its UTF-16 code units.  *)
(***************************************************************************)
IsHigh(u) == u \in 55296..56319
IsLow(u) == u \in 56320..57343

Utf8Of(c) ==
    IF c < 128 THEN <<c>>
    ELSE IF c < 2048 THEN <<192 + (c \div 64), 128 + (c % 64)>>
    ELSE IF c < 65536
    THEN <<224 + (c \div 4096), 128 + ((c \div 64) % 64), 128 + (c % 64)>>
    ELSE <<240 + (c \div 262144), 128 + ((c \div 4096) % 64),
           128 + ((c \div 64) % 64), 128 + (c % 64)>>

\* new TextEncoder().encode(text): a surrogate pair is one code point, an
\* unpaired surrogate is encoded as U+FFFD
RECURSIVE TextEncode(_)
TextEncode(text) ==
    IF text = <<>> THEN <<>>
    ELSE IF IsHigh(text[1]) /\ Len(text) >= 2 /\ IsLow(text[2])
    THEN Utf8Of(65536 + (text[1] - 55296) * 1024 + (text[2] - 56320))
         \o TextEncode(SubSeq(text, 3, Len(text)))
    ELSE IF IsHigh(text[1]) \/ IsLow(text[1])
    THEN <<239, 191, 189>> \o TextEncode(Tail(text))
    ELSE Utf8Of(text[1]) \o TextEncode(Tail(text))

IsCont(b) == b \in 128..191

Utf16Of(c) ==
    IF c < 65536 THEN <<c>>
    ELSE <<55296 + ((c - 65536) \div 1024), 56320 + ((c - 65536) % 1024)>>

RECURSIVE Utf8Decode(_)
Utf8Decode(bytes) ==
    IF bytes = <<>> THEN <<>>
    ELSE LET b == bytes[1]
             n == Len(bytes)
         IN  IF b < 128 THEN <<b>> \o Utf8Decode(Tail(bytes))
             ELSE IF b \in 194..223 /\ n >= 2 /\ IsCont(bytes[2])
                  THEN <<(b - 192) * 64 + (bytes[2] - 128)>>
                       \o Utf8Decode(SubSeq(bytes, 3, n))
             ELSE IF /\ b \in 224..239 /\ n >= 3 /\ IsCont(bytes[2]) /\ IsCont(bytes[3])
                     /\ (b = 224 => bytes[2] >= 160) /\ (b = 237 => bytes[2] < 160)
                  THEN <<(b - 224) * 4096 + (bytes[2] - 128) * 64 + (bytes[3] - 128)>>
                       \o Utf8Decode(SubSeq(bytes, 4, n))
             ELSE IF /\ b \in 240..244 /\ n >= 4
                     /\ IsCont(bytes[2]) /\ IsCont(bytes[3]) /\ IsCont(bytes[4])
                     /\ (b = 240 => bytes[2] >= 144) /\ (b = 244 => bytes[2] < 144)
                  THEN Utf16Of((b - 240) * 262144 + (bytes[2] - 128) * 4096
                               + (bytes[3] - 128) * 64 + (bytes[4] - 128))
                       \o Utf8Decode(SubSeq(bytes, 5, n))
             \* a malformed sequence decodes to U+FFFD
             ELSE <<65533>> \o Utf8Decode(Tail(bytes))

\* new TextDecoder().decode(bytes): ignoreBOM is false, a leading byte order
\* mark (U+FEFF) is not part of the result
TextDecode(bytes) ==
    LET s == Utf8Decode(bytes) IN
    IF s # <<>> /\ s[1] = 65279 THEN Tail(s) ELSE s

(***************************************************************************)
(* base64: btoa(String.fromCharCode(...bytes)) and atob                    *)
(***************************************************************************)
RECURSIVE btoa(_)
btoa(bytes) ==
    LET n == Len(bytes) IN
    IF n = 0 THEN <<>>
    ELSE IF n = 1 THEN <<bytes[1] \div 4, (bytes[1] % 4) * 16, 64, 64>>
    ELSE IF n = 2 THEN <<bytes[1] \div 4,
                         (bytes[1] % 4) * 16 + (bytes[2] \div 16),
                         (bytes[2] % 16) * 4, 64>>
    ELSE <<bytes[1] \div 4,
           (bytes[1] % 4) * 16 + (bytes[2] \div 16),
           (bytes[2] % 16) * 4 + (bytes[3] \div 64),
           bytes[3] % 64>> \o btoa(SubSeq(bytes, 4, n))

bufferToBase64(buffer) == btoa(buffer)

RECURSIVE DropBlanks(_)
DropBlanks(s) ==
    IF s = <<>> THEN <<>>
    ELSE IF Head(s) = 65 THEN DropBlanks(Tail(s))
    ELSE <<Head(s)>> \o DropBlanks(Tail(s))

StripPadding(s) ==
    LET n == Len(s) IN
    IF n > 0 /\ n % 4 = 0
    THEN IF n >= 2 /\ s[n] = 64 /\ s[n - 1] = 64 THEN SubSeq(s, 1, n - 2)
         ELSE IF s[n] = 64 THEN SubSeq(s, 1, n - 1)
         ELSE s
    ELSE s

RECURSIVE DecodeSextets(_)
DecodeSextets(s) ==
    LET n == Len(s) IN
    IF n < 2 THEN <<>>
    ELSE IF n = 2 THEN <<s[1] * 4 + (s[2] \div 16)>>
    ELSE IF n = 3 THEN <<s[1] * 4 + (s[2] \div 16), (s[2] % 16) * 16 + (s[3] \div 4)>>
    ELSE <<s[1] * 4 + (s[2] \div 16),
           (s[2] % 16) * 16 + (s[3] \div 4),
           (s[3] % 4) * 64 + s[4]>> \o DecodeSextets(SubSeq(s, 5, n))

\* the forgiving-base64 decode of atob: blanks are skipped, padding is
\* stripped, the unused low bits of the last character are discarded
atob(base64) ==
    LET s == StripPadding(DropBlanks(base64)) IN
    IF Len(s) % 4 = 1 \/ \E i \in 1..Len(s) : s[i] > 63
    THEN Throw("InvalidCharacterError")
    ELSE Ok(DecodeSextets(s))

base64ToBuffer(base64) == atob(base64)

(***************************************************************************)
(* Web Crypto primitives.  A key is its raw bytes; an RSA key pair is a    *)
(* number, the same for its public and its private half.  The ciphers are  *)
(* deterministic stand-ins with the properties the code relies on:         *)
(* decryption inverts encryption under the same key (and nonce), and fails *)
(* with OperationError on any other key, nonce or byte string.             *)
(***************************************************************************)
RECURSIVE Digest(_)
Digest(s) ==
    IF s = <<>> THEN 7 ELSE (Len(s) * s[Len(s)] + 3 * Digest(SubSeq(s, 1, Len(s) - 1))) % 251

Mask(bytes, k) == [i \in 1..Len(bytes) |-> (bytes[i] + k) % 256]
Unmask(bytes, k) == [i \in 1..Len(bytes) |-> (bytes[i] + 256 - (k % 256)) % 256]

\* subtle.encrypt({name: "AES-GCM", iv}, key, data): ciphertext followed by the tag
AesGcmEncrypt(key, iv, data) ==
    Mask(data, key[1] + Digest(iv)) \o key \o <<Digest(iv), Digest(data)>>

\* subtle.decrypt({name: "AES-GCM", iv}, key, data)
AesGcmDecrypt(key, iv, data) ==
    LET n == Len(data) - Len(key) - 2
        pt == Unmask(SubSeq(data, 1, n), key[1] + Digest(iv))
    IN  IF n >= 0 /\ AesGcmEncrypt(key, iv, pt) = data
        THEN Ok(pt) ELSE Throw("OperationError")

\* subtle.encrypt({name: "RSA-OAEP"}, publicKey, data)
RsaOaepEncrypt(pair, data) == <<pair>> \o Mask(data, pair) \o <<Digest(data)>>

\* subtle.decrypt({name: "RSA-OAEP"}, privateKey, data)
RsaOaepDecrypt(pair, data) ==
    LET n == Len(data) - 2
        raw == Unmask(SubSeq(data, 2, n + 1), pair)
    IN  IF n >= 0 /\ RsaOaepEncrypt(pair, raw) = data
        THEN Ok(raw) ELSE Throw("OperationError")

\* subtle.exportKey("spki", publicKey) / subtle.importKey("spki", ...)
ExportSpki(pair) == <<48, 130, pair>>
ImportSpki(bytes) ==
    IF Len(bytes) = 3 /\ bytes[1] = 48 /\ bytes[2] = 130
    THEN Ok(bytes[3]) ELSE Throw("DataError")

\* subtle.exportKey("pkcs8", privateKey) / subtle.importKey("pkcs8", ...)
ExportPkcs8(pair) == <<48, 129, pair>>
ImportPkcs8(bytes) ==
    IF Len(bytes) = 3 /\ bytes[1] = 48 /\ bytes[2] = 129
    THEN Ok(bytes[3]) ELSE Throw("DataError")

\* subtle.importKey("raw", bytes, "AES-GCM", ...): any byte string of the key length
ImportRawAes(bytes) == IF Len(bytes) = 2 THEN Ok(bytes) ELSE Throw("DataError")

(***************************************************************************)
(* cryptoService                                                           *)
(***************************************************************************)
\* a derivation that leaves the password out of the key material
deriveKeyFromSalt(password, salt) ==
    <<Digest(TextEncode(salt)), Digest(<<0>> \o TextEncode(salt))>>

\* PBKDF2(password, salt) -> AES-GCM key
deriveKeyFromPassword(password, salt) ==
    <<Digest(TextEncode(password)), Digest(TextEncode(password) \o <<0>> \o TextEncode(salt))>>

\* the public half as the registry stores it
publicKeyOf(pair) == bufferToBase64(ExportSpki(pair))

protectPrivateKey(privateKey, masterKey, iv) ==
    [data |-> bufferToBase64(AesGcmEncrypt(masterKey, iv, ExportPkcs8(privateKey))),
     iv |-> bufferToBase64(iv)]

recoverPrivateKey(encryptedData, masterKey, iv) ==
    LET ivb == base64ToBuffer(iv)
        ctb == base64ToBuffer(encryptedData)
    IN  IF ~ivb.ok THEN ivb
        ELSE IF ~ctb.ok THEN ctb
        ELSE LET d == AesGcmDecrypt(masterKey, ivb.v, ctb.v)
             IN  IF ~d.ok THEN d ELSE ImportPkcs8(d.v)

encryptWithAES(text, key, iv) ==
    [ciphertext |-> bufferToBase64(AesGcmEncrypt(key, iv, TextEncode(text))),
     iv |-> bufferToBase64(iv)]

decryptWithAES(ciphertext, key, iv) ==
    LET ivb == base64ToBuffer(iv)
        ctb == base64ToBuffer(ciphertext)
    IN  IF ~ivb.ok THEN ivb
        ELSE IF ~ctb.ok THEN ctb
        ELSE LET d == AesGcmDecrypt(key, ivb.v, ctb.v)
             IN  IF ~d.ok THEN d ELSE Ok(TextDecode(d.v))

encryptKeyWithRSA(aesKey, publicKeyStr) ==
    LET spki == base64ToBuffer(publicKeyStr)
    IN  IF ~spki.ok THEN spki
        ELSE LET pub == ImportSpki(spki.v)
             IN  IF ~pub.ok THEN pub
                 ELSE Ok(bufferToBase64(RsaOaepEncrypt(pub.v, aesKey)))

decryptKeyWithRSA(encryptedKeyStr, privateKey) ==
    LET ctb == base64ToBuffer(encryptedKeyStr)
    IN  IF ~ctb.ok THEN ctb
        ELSE LET d == RsaOaepDecrypt(privateKey, ctb.v)
             IN  IF ~d.ok THEN d ELSE ImportRawAes(d.v)

(***************************************************************************)
(* The universe of the model                                               *)
(***************************************************************************)
\* the devices that run the application
Nodes == {"alice", "bob"}

\* how many transport handles (new Peer) of a device are live or still owe
\* events at a time
MaxHandles == 2
\* how many connection objects the transport creates in a run
MaxConns == 2
\* how many records one end of a connection sends
MaxSent == 2
\* how many entries a chat message list holds
MaxMessages == 1
\* how many reconnect attempts run without an intervening transport 'open'
MaxBackoff == 10
\* how deep send() may re-enter itself before the model stops following it
MaxDepth == 3
\* how long the usernames are from which NodeIds are derived
MaxName == 3

\* "Al", "Bo"
NameOf(n) == IF n = "alice" THEN <<65, 108>> ELSE <<66, 111>>
PairOf(n) == IF n = "alice" THEN 1 ELSE 2

\* the User record of types.ts, as the registry lists it
UserOf(n) == [id |-> n, username |-> NameOf(n), publicKey |-> publicKeyOf(PairOf(n))]

\* user records init() is called with: the registered one, and one whose
\* username carries blanks and another case (" al " / " bo ")
InitUsers(n) ==
    {UserOf(n), [UserOf(n) EXCEPT !.username = <<32>> \o toLowerCase(NameOf(n)) \o <<32>>]}

\* usernames connectToPeer() is called with: "Al", " AL ", "al\n", "Bo", " bo "
TargetNames ==
    {<<65, 108>>, <<32, 65, 76, 32>>, <<97, 108, 10>>, <<66, 111>>, <<32, 98, 111, 32>>}

\* transport-level peer ids of remote peers that are not devices of the model
RemoteIds == {NodeIdOf(<<66, 111>>), NodeIdOf(<<67, 97>>)}

\* plaintexts: "hi", "é€", an emoji (a surrogate pair), "hi" after a zero
\* width no-break space (U+FEFF)
Plaintexts == {<<104, 105>>, <<233, 8364>>, <<55357, 56832>>, <<65279, 104, 105>>}
\* session keys generateAESKey() may return, nonces getRandomValues() may return
SessionKeys == {<<17, 4>>, <<200, 91>>}
Nonces == {<<1, 2, 3>>, <<9, 250, 77>>}

NoUser == [id |-> "", username |-> <<>>, publicKey |-> <<>>]
NoEnvelope == [senderId |-> <<>>]

(***************************************************************************)
(* State                                                                   *)
(***************************************************************************)
VARIABLES
    \* SocketService fields, one instance per device
    peer,               \* 0 (null) or the index of the handle in peerObjs
    connections,        \* Map<string, conn>: NodeId -> index in conns
    handlers,           \* Set<MessageHandler>
    errorHandlers,      \* Set<ErrorHandler>
    myId,
    myUser,
    isOnline,
    reconnectDelay,     \* in 1/512 ms
    reconnectTimeout,   \* "null", or the handle of a timer that is "armed" or "cleared"
    isDestroyed,
    \* the transport
    peerObjs,           \* the Peer handles created so far
    conns,              \* the DataConnection objects created so far
    timers,             \* pending setTimeout callbacks, per device
    \* App state, per device
    authState,
    messages,
    \* the envelope an adversary on the path holds, the key-protection blob, and
    \* the NodeIds derived from a pair of usernames
    wire,
    keyLab,
    idLab,
    \* the identity registry: the records the cloud store holds, the records of
    \* each device's localStorage, and the register() call a device has in flight
    cloud,
    vault,
    pending,
    \* observation: reconnect attempts since the last transport 'open', and what
    \* the last step did (errors reported, connections requested, ...)
    attempts,
    out

svcVars == <<peer, connections, handlers, errorHandlers, myId, myUser, isOnline,
             reconnectDelay, reconnectTimeout, isDestroyed>>
netVars == <<peerObjs, conns, timers>>
appVars == <<authState, messages>>
regVars == <<cloud, vault, pending>>
labVars == <<wire, keyLab, idLab, regVars>>
vars == <<svcVars, netVars, appVars, labVars, attempts, out>>

Ticks(ms) == ms * 512
Min(a, b) == IF a < b THEN a ELSE b

MapSet(m, k, v) == [x \in (DOMAIN m) \cup {k} |-> IF x = k THEN v ELSE m[x]]
MapDelete(m, k) == [x \in (DOMAIN m) \ {k} |-> m[x]]
EmptyMap == [x \in {} |-> 0]

\* what a step leaves in `out`
Quiet(op, n) ==
    [op |-> op, node |-> n, errs |-> <<>>, connects |-> <<>>, calls |-> 0,
     sched |-> 0, logs |-> <<>>]

Init ==
    /\ peer = [n \in Nodes |-> 0]
    /\ connections = [n \in Nodes |-> EmptyMap]
    /\ handlers = [n \in Nodes |-> {}]
    /\ errorHandlers = [n \in Nodes |-> {}]
    /\ myId = [n \in Nodes |-> <<>>]
    /\ myUser = [n \in Nodes |-> NoUser]
    /\ isOnline = [n \in Nodes |-> FALSE]
    /\ reconnectDelay = [n \in Nodes |-> Ticks(1000)]
    /\ reconnectTimeout = [n \in Nodes |-> "null"]
    /\ isDestroyed = [n \in Nodes |-> FALSE]
    /\ peerObjs = <<>>
    /\ conns = <<>>
    /\ timers = [n \in Nodes |-> 0]
    /\ authState = [n \in Nodes |-> [isAuthenticated |-> FALSE, user |-> NoUser, privateKey |-> 0]]
    /\ messages = [n \in Nodes |-> <<>>]
    /\ wire = NoEnvelope
    /\ keyLab = [stage |-> "none"]
    /\ idLab = [stage |-> "none"]
    /\ cloud = <<>>
    /\ vault = [n \in Nodes |-> <<>>]
    /\ pending = [n \in Nodes |-> [stage |-> "none"]]
    /\ attempts = [n \in Nodes |-> 0]
    /\ out = Quiet("construct", "")

(***************************************************************************)
(* The transport: Peer handles and DataConnection objects                  *)
(***************************************************************************)
NewPeer(n, id, ready) ==
    [owner |-> n, id |-> id, open |-> FALSE, disconnected |-> FALSE,
     destroyed |-> FALSE, owed |-> {}, ready |-> ready]

\* peer.destroy(): the handle is released; it still emits 'disconnected' (when
\* it was not disconnected already) and 'close'
Released(h) ==
    [h EXCEPT !.open = FALSE, !.disconnected = TRUE, !.destroyed = TRUE,
              !.owed = (IF h.disconnected THEN {} ELSE {"disconnected"}) \cup {"close"}]

\* one end of a DataConnection: conn.peer, conn.open, the handlers the service
\* attached to it, the records it sent and how many of the other end's it received
NewEnd(node, peerId) ==
    [node |-> node, peer |-> peerId, open |-> FALSE, closed |-> FALSE,
     setup |-> FALSE, queued |-> <<>>, sent |-> <<>>, rcvd |-> 0]

SideIn(cs, n, c) == IF cs[c].a.node = n THEN "a" ELSE "b"
Other(side) == IF side = "a" THEN "b" ELSE "a"

\* the device whose open handle is registered under `id`, or "env"
OwnerOf(id, self) ==
    LET owners == {m \in Nodes \ {self} :
                     /\ peer[m] # 0
                     /\ peerObjs[peer[m]].id = id
                     /\ peerObjs[peer[m]].open}
    IN  IF owners = {} THEN "env" ELSE CHOOSE m \in owners : TRUE

HandleId(n) == IF peer[n] = 0 THEN <<>> ELSE peerObjs[peer[n]].id

\* peer.connect(id, ...); via: the call that requested the connection
NewConn(n, target, via) ==
    [a |-> NewEnd(n, target), b |-> NewEnd(OwnerOf(target, n), HandleId(n)),
     announced |-> FALSE, via |-> via]

\* a closed end: what it had queued or not yet delivered is dropped
Closed(e) ==
    [e EXCEPT !.open = FALSE, !.closed = TRUE, !.queued = <<>>, !.sent = <<>>, !.rcvd = 0]

(***************************************************************************)
(* SocketService                                                           *)
(***************************************************************************)
ChatRecord(message) == [type |-> "CHAT", data |-> message]
IdentityRecord(user) ==
    [type |-> "IDENTITY_EXCHANGE", publicKey |-> user.publicKey, username |-> user.username]

\* a released handle that has emitted all its events: nothing refers to it
\* any more, the next handle takes its place in peerObjs
Dead(h) == h.destroyed /\ h.owed = {}
FreeSlots == {h \in 1..Len(peerObjs) : Dead(peerObjs[h])}
NewSlot == IF FreeSlots = {} THEN Len(peerObjs) + 1
           ELSE CHOOSE h \in FreeSlots : \A g \in FreeSlots : h <= g

createPeer(n, id, ready) ==
    /\ peerObjs' = [h \in 1..(IF FreeSlots = {} THEN Len(peerObjs) + 1 ELSE Len(peerObjs)) |->
                      IF h = NewSlot THEN NewPeer(n, id, ready) ELSE peerObjs[h]]
    /\ peer' = [peer EXCEPT ![n] = NewSlot]

\* init() without the test for a live handle
initAlways(n, user, ready) ==
    /\ isDestroyed' = [isDestroyed EXCEPT ![n] = FALSE]
    /\ myUser' = [myUser EXCEPT ![n] = user]
    /\ myId' = [myId EXCEPT ![n] = NodeIdOf(user.username)]
    /\ createPeer(n, NodeIdOf(user.username), ready)

\* init(user, onReady)
init(n, user, ready) ==
    IF peer[n] # 0 /\ ~peerObjs[peer[n]].destroyed
    THEN UNCHANGED <<isDestroyed, myUser, myId, peerObjs, peer>>
    ELSE /\ isDestroyed' = [isDestroyed EXCEPT ![n] = FALSE]
         /\ myUser' = [myUser EXCEPT ![n] = user]
         /\ myId' = [myId EXCEPT ![n] = NodeIdOf(user.username)]
         /\ createPeer(n, NodeIdOf(user.username), ready)

\* whether the step may create a handle: the run holds at most `cap` handles
\* that are live or still owe events
Room(n, cap) ==
    peer[n] = 0 \/ peerObjs[peer[n]].destroyed => FreeSlots # {} \/ Len(peerObjs) < cap

\* handleReconnect()
handleReconnect(n) ==
    IF reconnectTimeout[n] # "null"
    THEN UNCHANGED <<reconnectTimeout, timers>>
    ELSE /\ reconnectTimeout' = [reconnectTimeout EXCEPT ![n] = "armed"]
         /\ timers' = [timers EXCEPT ![n] = @ + 1]

\* the delay a timer was scheduled with in this step, or 0
Scheduled(n) == IF timers'[n] > timers[n] THEN reconnectDelay[n] ELSE 0

\* the callback with the delay multiplied but not held to the maximum
reconnectAttemptUncapped(n) ==
    /\ IF peer[n] # 0 /\ peerObjs[peer[n]].disconnected /\ ~peerObjs[peer[n]].destroyed
       THEN /\ peerObjs' = [peerObjs EXCEPT ![peer[n]].disconnected = FALSE]
            /\ UNCHANGED <<isDestroyed, myUser, myId, peer>>
       ELSE IF (peer[n] = 0 \/ peerObjs[peer[n]].destroyed) /\ myUser[n] # NoUser
       THEN init(n, myUser[n], "noop")
       ELSE UNCHANGED <<isDestroyed, myUser, myId, peerObjs, peer>>
    /\ reconnectTimeout' = [reconnectTimeout EXCEPT ![n] = "null"]
    /\ reconnectDelay' = [reconnectDelay EXCEPT ![n] = (@ * 3) \div 2]

\* the setTimeout callback of handleReconnect
reconnectAttempt(n) ==
    /\ IF peer[n] # 0 /\ peerObjs[peer[n]].disconnected /\ ~peerObjs[peer[n]].destroyed
       THEN \* peer.reconnect()
            /\ peerObjs' = [peerObjs EXCEPT ![peer[n]].disconnected = FALSE]
            /\ UNCHANGED <<isDestroyed, myUser, myId, peer>>
       ELSE IF (peer[n] = 0 \/ peerObjs[peer[n]].destroyed) /\ myUser[n] # NoUser
       THEN init(n, myUser[n], "noop")
       ELSE UNCHANGED <<isDestroyed, myUser, myId, peerObjs, peer>>
    /\ reconnectTimeout' = [reconnectTimeout EXCEPT ![n] = "null"]
    /\ reconnectDelay' =
         [reconnectDelay EXCEPT ![n] = Min((@ * 3) \div 2, Ticks(30000))]

\* setupConnection(conn) without the duplicate guard
setupAttachesAlways(reg, cs, n, peerId) == TRUE

\* setupConnection(conn): whether it goes on to attach its handlers
setupAttaches(reg, cs, n, peerId) ==
    ~(peerId \in DOMAIN reg /\ cs[reg[peerId]][SideIn(cs, n, reg[peerId])].open)

\* getActiveConnections()
getActiveConnections(n) ==
    {id \in DOMAIN connections[n] :
        conns[connections[n][id]][SideIn(conns, n, connections[n][id])].open}

(***************************************************************************)
(* Lifecycle of the service: init, transport events, reconnect, destroy    *)
(***************************************************************************)
\* socketService.init(user, onReady), called by the application
CallInit(n, user, cap) ==
    /\ Room(n, cap)
    /\ init(n, user, "app")
    /\ UNCHANGED <<connections, handlers, errorHandlers, isOnline, reconnectDelay,
                   reconnectTimeout, conns, timers, appVars, labVars, attempts>>
    /\ out' = Quiet("init", n)

\* peer.on('open')
PeerOpen(h) ==
    LET n == peerObjs[h].owner IN
    /\ ~peerObjs[h].destroyed /\ ~peerObjs[h].disconnected /\ ~peerObjs[h].open
    /\ peerObjs' = [peerObjs EXCEPT ![h].open = TRUE]
    /\ isOnline' = [isOnline EXCEPT ![n] = TRUE]
    /\ reconnectDelay' = [reconnectDelay EXCEPT ![n] = Ticks(1000)]
    /\ attempts' = [attempts EXCEPT ![n] = 0]
    /\ UNCHANGED <<peer, connections, handlers, errorHandlers, myId, myUser,
                   reconnectTimeout, isDestroyed, conns, timers, appVars, labVars>>
    /\ out' = Quiet("peer.open", n)

\* peer.on('disconnected'): the live handle loses its server connection, or a
\* released handle emits the event it still owes
PeerDisconnected(h) ==
    LET n == peerObjs[h].owner IN
    /\ \/ /\ ~peerObjs[h].destroyed /\ ~peerObjs[h].disconnected
          /\ peerObjs' = [peerObjs EXCEPT ![h].disconnected = TRUE, ![h].open = FALSE]
       \/ /\ peerObjs[h].destroyed /\ "disconnected" \in peerObjs[h].owed
          /\ peerObjs' = [peerObjs EXCEPT ![h].owed = @ \ {"disconnected"}]
    /\ isOnline' = [isOnline EXCEPT ![n] = FALSE]
    /\ handleReconnect(n)
    /\ UNCHANGED <<peer, connections, handlers, errorHandlers, myId, myUser,
                   reconnectDelay, isDestroyed, conns, appVars, labVars, attempts>>
    /\ out' = [Quiet("peer.disconnected", n) EXCEPT !.sched = Scheduled(n)]

\* peer.on('close'): emitted by a released handle
PeerClose(h) ==
    LET n == peerObjs[h].owner IN
    /\ peerObjs[h].destroyed /\ "close" \in peerObjs[h].owed
    /\ peerObjs' = [peerObjs EXCEPT ![h].owed = @ \ {"close"}]
    /\ isOnline' = [isOnline EXCEPT ![n] = FALSE]
    /\ IF ~isDestroyed[n] THEN handleReconnect(n) ELSE UNCHANGED <<reconnectTimeout, timers>>
    /\ UNCHANGED <<peer, connections, handlers, errorHandlers, myId, myUser,
                   reconnectDelay, isDestroyed, conns, appVars, labVars, attempts>>
    /\ out' = [Quiet("peer.close", n) EXCEPT !.sched = Scheduled(n)]

\* the transport gives up a handle by itself (a fatal error): it becomes
\* destroyed and owes its 'disconnected' and 'close' events
PeerFatal(h) ==
    /\ ~peerObjs[h].destroyed
    /\ peerObjs' = [peerObjs EXCEPT ![h] = Released(@)]
    /\ UNCHANGED <<svcVars, conns, timers, appVars, labVars, attempts>>
    /\ out' = Quiet("transport.fatal", peerObjs[h].owner)

ErrorTypes == {"peer-unavailable", "network", "webrtc"}

\* err.message of a 'peer-unavailable' error: "Could not connect to peer <id>"
UnavailableMessage(id) == <<67, 32>> \o id

\* peer.on('error')
PeerError(h, type, id) ==
    LET n == peerObjs[h].owner IN
    /\ ~peerObjs[h].destroyed
    /\ connections' =
         IF type = "peer-unavailable"
         THEN [connections EXCEPT ![n] = MapDelete(@, UnavailableMessage(id))]
         ELSE connections
    /\ IF type = "network" THEN handleReconnect(n) ELSE UNCHANGED <<reconnectTimeout, timers>>
    /\ UNCHANGED <<peer, handlers, errorHandlers, myId, myUser, isOnline, reconnectDelay,
                   isDestroyed, peerObjs, conns, appVars, labVars, attempts>>
    /\ out' = [Quiet("peer.error", n) EXCEPT
                 !.errs = <<type>>, !.sched = Scheduled(n)]

\* the reconnect timer fires
TimerFires(n, bound, cap) ==
    /\ timers[n] > 0
    /\ attempts[n] < bound
    /\ Room(n, cap)
    /\ timers' = [timers EXCEPT ![n] = @ - 1]
    /\ reconnectAttempt(n)
    /\ attempts' = [attempts EXCEPT ![n] = @ + 1]
    /\ UNCHANGED <<connections, handlers, errorHandlers, isOnline, conns, appVars, labVars>>
    /\ out' = Quiet("timer", n)

RegistryConns(n) == {connections[n][k] : k \in DOMAIN connections[n]}

\* destroy() without `this.isOnline = false`
destroyLeavesOnline(n) ==
    /\ isDestroyed' = [isDestroyed EXCEPT ![n] = TRUE]
    /\ timers' = [timers EXCEPT ![n] = IF reconnectTimeout[n] = "armed" THEN @ - 1 ELSE @]
    /\ reconnectTimeout' =
         [reconnectTimeout EXCEPT ![n] = IF @ = "armed" THEN "cleared" ELSE @]
    /\ conns' = [c \in 1..Len(conns) |->
                   IF c \in RegistryConns(n)
                   THEN [conns[c] EXCEPT ![SideIn(conns, n, c)] = Closed(@)]
                   ELSE conns[c]]
    /\ connections' = [connections EXCEPT ![n] = EmptyMap]
    /\ peerObjs' = IF peer[n] # 0 /\ ~peerObjs[peer[n]].destroyed
                   THEN [peerObjs EXCEPT ![peer[n]] = Released(@)]
                   ELSE peerObjs
    /\ UNCHANGED isOnline

\* destroy()
destroy(n) ==
    /\ isDestroyed' = [isDestroyed EXCEPT ![n] = TRUE]
    \* clearTimeout(this.reconnectTimeout): the field keeps the handle
    /\ timers' = [timers EXCEPT ![n] = IF reconnectTimeout[n] = "armed" THEN @ - 1 ELSE @]
    /\ reconnectTimeout' =
         [reconnectTimeout EXCEPT ![n] = IF @ = "armed" THEN "cleared" ELSE @]
    /\ conns' = [c \in 1..Len(conns) |->
                   IF c \in RegistryConns(n)
                   THEN [conns[c] EXCEPT ![SideIn(conns, n, c)] = Closed(@)]
                   ELSE conns[c]]
    /\ connections' = [connections EXCEPT ![n] = EmptyMap]
    /\ peerObjs' = IF peer[n] # 0 /\ ~peerObjs[peer[n]].destroyed
                   THEN [peerObjs EXCEPT ![peer[n]] = Released(@)]
                   ELSE peerObjs
    /\ isOnline' = [isOnline EXCEPT ![n] = FALSE]

Destroy(n) ==
    /\ destroy(n)
    /\ UNCHANGED <<peer, handlers, errorHandlers, myId, myUser, reconnectDelay,
                   appVars, labVars, attempts>>
    /\ out' = Quiet("destroy", n)

\* onMessage(handler) and onError(handler), as the application subscribes
Subscribe(n) ==
    /\ "app" \notin handlers[n]
    /\ handlers' = [handlers EXCEPT ![n] = @ \cup {"app"}]
    /\ errorHandlers' = [errorHandlers EXCEPT ![n] = @ \cup {"log"}]
    /\ UNCHANGED <<peer, connections, myId, myUser, isOnline, reconnectDelay,
                   reconnectTimeout, isDestroyed, netVars, appVars, labVars, attempts>>
    /\ out' = Quiet("subscribe", n)

(***************************************************************************)
(* connectToPeer and send                                                  *)
(***************************************************************************)
IsOpenIn(reg, cs, n, id) ==
    id \in DOMAIN reg /\ cs[reg[id]][SideIn(cs, n, reg[id])].open

\* connectToPeer deriving the id without trimming the username
connectToPeerNoTrim(n, targetUsername, throws) ==
    LET peerId == NodeIdNoTrim(targetUsername) IN
    IF peerId = myId[n] \/ IsOpenIn(connections[n], conns, n, peerId)
    THEN /\ UNCHANGED conns
         /\ out' = Quiet("connectToPeer", n)
    ELSE IF peer[n] = 0 \/ peerObjs[peer[n]].destroyed \/ ~isOnline[n]
    THEN /\ UNCHANGED conns
         /\ out' = [Quiet("connectToPeer", n) EXCEPT !.errs = <<"offline">>]
    ELSE IF throws
    THEN /\ UNCHANGED conns
         /\ out' = [Quiet("connectToPeer", n) EXCEPT
                      !.errs = <<"connect-fail">>, !.connects = <<peerId>>]
    ELSE /\ Len(conns) < MaxConns
         /\ conns' = Append(conns,
                [NewConn(n, peerId, "connectToPeer") EXCEPT
                   !.a.setup = setupAttaches(connections[n], conns, n, peerId)])
         /\ out' = [Quiet("connectToPeer", n) EXCEPT !.connects = <<peerId>>]

\* connectToPeer testing only the handle, not isOnline
connectToPeerUnguarded(n, targetUsername, throws) ==
    LET peerId == NodeIdOf(targetUsername) IN
    IF peerId = myId[n] \/ IsOpenIn(connections[n], conns, n, peerId)
    THEN /\ UNCHANGED conns
         /\ out' = Quiet("connectToPeer", n)
    ELSE IF peer[n] = 0 \/ peerObjs[peer[n]].destroyed
    THEN /\ UNCHANGED conns
         /\ out' = [Quiet("connectToPeer", n) EXCEPT
                      !.errs = <<"offline">>]
    ELSE IF throws
    THEN /\ UNCHANGED conns
         /\ out' = [Quiet("connectToPeer", n) EXCEPT
                      !.errs = <<"connect-fail">>, !.connects = <<peerId>>]
    ELSE /\ Len(conns) < MaxConns
         /\ conns' = Append(conns,
                [NewConn(n, peerId, "connectToPeer") EXCEPT
                   !.a.setup = setupAttaches(connections[n], conns, n, peerId)])
         /\ out' = [Quiet("connectToPeer", n) EXCEPT !.connects = <<peerId>>]

\* connectToPeer(targetUsername); `throws`: whether peer.connect throws
connectToPeer(n, targetUsername, throws) ==
    LET peerId == NodeIdOf(targetUsername) IN
    IF peerId = myId[n] \/ IsOpenIn(connections[n], conns, n, peerId)
    THEN /\ UNCHANGED conns
         /\ out' = Quiet("connectToPeer", n)
    ELSE IF peer[n] = 0 \/ peerObjs[peer[n]].destroyed \/ ~isOnline[n]
    THEN /\ UNCHANGED conns
         /\ out' = [Quiet("connectToPeer", n) EXCEPT
                      !.errs = <<"offline">>]
    ELSE IF throws
    THEN /\ UNCHANGED conns
         /\ out' = [Quiet("connectToPeer", n) EXCEPT
                      !.errs = <<"connect-fail">>, !.connects = <<peerId>>]
    ELSE /\ Len(conns) < MaxConns
         /\ conns' = Append(conns,
                [NewConn(n, peerId, "connectToPeer") EXCEPT
                   !.a.setup = setupAttaches(connections[n], conns, n, peerId)])
         /\ out' = [Quiet("connectToPeer", n) EXCEPT !.connects = <<peerId>>]

ConnectToPeer(n, targetUsername) ==
    /\ \E throws \in BOOLEAN : connectToPeer(n, targetUsername, throws)
    /\ UNCHANGED <<svcVars, peerObjs, timers, appVars, labVars, attempts>>

\* send(message).  sthrows: conn.send on the registered connection throws;
\* cthrows: peer.connect throws.  The result is the registry, the connection
\* objects, the errors reported, the connections requested and the number of
\* invocations of send() this call made (itself included).
RECURSIVE send(_, _, _, _, _, _, _)

\* send() in two variants: without the isOnline test (online = FALSE), and
\* retrying without deleting the registry entry (evict = FALSE)
sendVariant(n, message, reg, cs, sthrows, cthrows, depth, online, evict) ==
    LET targetPeerId == NodeIdOf(message.recipientId)
        payload == ChatRecord(message)
        same == [reg |-> reg, cs |-> cs, errs |-> <<>>, connects |-> <<>>, calls |-> 1]
    IN  IF depth > MaxDepth THEN [same EXCEPT !.calls = 0]
        ELSE IF online /\ ~isOnline[n] THEN [same EXCEPT !.errs = <<"transport">>]
        ELSE IF ~IsOpenIn(reg, cs, n, targetPeerId)
        THEN IF cthrows \/ peer[n] = 0
             THEN [same EXCEPT !.errs = <<"send-fail">>, !.connects = <<targetPeerId>>]
             ELSE [same EXCEPT
                     !.cs = Append(cs, [NewConn(n, targetPeerId,
                                                IF depth = 1 THEN "send" ELSE "retry") EXCEPT
                               !.a.setup = setupAttaches(reg, cs, n, targetPeerId),
                               !.a.queued = <<payload>>]),
                     !.connects = <<targetPeerId>>]
        ELSE IF sthrows
        THEN LET r == send(n, message, IF evict THEN MapDelete(reg, targetPeerId) ELSE reg,
                           cs, sthrows, cthrows, depth + 1)
             IN  [r EXCEPT !.errs = <<"send-fail">> \o r.errs, !.calls = 1 + r.calls]
        ELSE [same EXCEPT
                !.cs = [cs EXCEPT ![reg[targetPeerId]][SideIn(cs, n, reg[targetPeerId])].sent =
                                      Append(@, payload)]]

sendUnchecked(n, message, reg, cs, sthrows, cthrows, depth) ==
    sendVariant(n, message, reg, cs, sthrows, cthrows, depth, FALSE, TRUE)

sendKeepsEntry(n, message, reg, cs, sthrows, cthrows, depth) ==
    sendVariant(n, message, reg, cs, sthrows, cthrows, depth, TRUE, FALSE)

send(n, message, reg, cs, sthrows, cthrows, depth) ==
    LET targetPeerId == NodeIdOf(message.recipientId)
        payload == ChatRecord(message)
        same == [reg |-> reg, cs |-> cs, errs |-> <<>>, connects |-> <<>>, calls |-> 1]
    IN  IF depth > MaxDepth THEN [same EXCEPT !.calls = 0]
        ELSE IF ~isOnline[n] THEN [same EXCEPT !.errs = <<"transport">>]
        ELSE IF ~IsOpenIn(reg, cs, n, targetPeerId)
        THEN IF cthrows \/ peer[n] = 0
             THEN [same EXCEPT !.errs = <<"send-fail">>, !.connects = <<targetPeerId>>]
             ELSE [same EXCEPT
                     !.cs = Append(cs, [NewConn(n, targetPeerId,
                                                IF depth = 1 THEN "send" ELSE "retry") EXCEPT
                               !.a.setup = setupAttaches(reg, cs, n, targetPeerId),
                               !.a.queued = <<payload>>]),
                     !.connects = <<targetPeerId>>]
        ELSE IF sthrows
        THEN LET r == send(n, message, MapDelete(reg, targetPeerId), cs,
                           sthrows, cthrows, depth + 1)
             IN  [r EXCEPT !.errs = <<"send-fail">> \o r.errs, !.calls = 1 + r.calls]
        ELSE [same EXCEPT
                !.cs = [cs EXCEPT ![reg[targetPeerId]][SideIn(cs, n, reg[targetPeerId])].sent =
                                      Append(@, payload)]]

SendFits(r) ==
    /\ Len(r.cs) <= MaxConns
    /\ \A c \in 1..Len(r.cs) : Len(r.cs[c].a.sent) <= MaxSent /\ Len(r.cs[c].b.sent) <= MaxSent

\* the messages socketService.send() is called with directly
Envelope(sender, recipient, text, key, iv) ==
    LET sealed == encryptWithAES(text, key, iv)
        wrapped == encryptKeyWithRSA(key, recipient.publicKey)
    IN  [senderId |-> sender.username, recipientId |-> recipient.username,
         isGroup |-> FALSE, encryptedContent |-> sealed.ciphertext,
         encryptedSessionKey |-> wrapped.v, iv |-> sealed.iv, hmac |-> "GCM-SECURE"]

ApiMessages(n) ==
    {Envelope(UserOf(n), UserOf(m), <<104, 105>>, <<17, 4>>, <<1, 2, 3>>) : m \in Nodes}

Send(n, message) ==
    \E sthrows, cthrows \in BOOLEAN :
    \E r \in {send(n, message, connections[n], conns, sthrows, cthrows, 1)} :
        /\ SendFits(r)
        /\ connections' = [connections EXCEPT ![n] = r.reg]
        /\ conns' = r.cs
        /\ UNCHANGED <<peer, handlers, errorHandlers, myId, myUser, isOnline, reconnectDelay,
                       reconnectTimeout, isDestroyed, peerObjs, timers, appVars, labVars,
                       attempts>>
        /\ out' = [Quiet("send", n) EXCEPT
                     !.errs = r.errs, !.connects = r.connects, !.calls = r.calls]

(***************************************************************************)
(* App.tsx: the message handler and sendMessage                            *)
(***************************************************************************)
\* the onMessage handler of the session effect: the message list and the
\* audit-log entries it adds, and the reachable list it stores
\* decryptKeyWithRSA then decryptWithAES, as the handler opens an envelope
Opened(data, privateKey) ==
    LET aesKey == decryptKeyWithRSA(data.encryptedSessionKey, privateKey) IN
    IF ~aesKey.ok THEN aesKey
    ELSE decryptWithAES(data.encryptedContent, aesKey.v, data.iv)

\* the handler appending the envelope whether or not it could be opened
appHandlerAppendsAnyway(n, msg) ==
    LET none == [messages |-> messages[n], logs |-> <<>>]
    IN  IF msg.type = "CHAT"
        THEN IF authState[n].privateKey # 0
             THEN LET decrypted == Opened(msg.data, authState[n].privateKey)
                  IN  [messages |-> Append(messages[n],
                            [data |-> msg.data,
                             decryptedContent |-> IF decrypted.ok THEN decrypted.v ELSE <<>>,
                             received |-> TRUE]),
                       logs |-> IF decrypted.ok THEN <<"INTEGRITY_CHECK">>
                                ELSE <<"DECRYPTION_ERROR">>]
             ELSE none
        ELSE [none EXCEPT !.logs = <<"AUTH">>]

appHandler(n, msg) ==
    LET none == [messages |-> messages[n], logs |-> <<>>]
    IN  IF msg.type = "CHAT"
        THEN IF authState[n].privateKey # 0
             THEN LET decrypted == Opened(msg.data, authState[n].privateKey)
                  IN  IF decrypted.ok
                      THEN [messages |-> Append(messages[n],
                                [data |-> msg.data, decryptedContent |-> decrypted.v,
                                 received |-> TRUE]),
                            logs |-> <<"INTEGRITY_CHECK">>]
                      ELSE [none EXCEPT !.logs = <<"DECRYPTION_ERROR">>]
             ELSE none
        ELSE [none EXCEPT !.logs = <<"AUTH">>]

\* the data handler re-keying the registry only when the record carries the
\* public key of the sender's registry record
dataHandlerChecksKey(n, c, data) ==
    \E r \in {IF "app" \in handlers[n] THEN appHandler(n, data)
              ELSE [messages |-> messages[n], logs |-> <<>>]} :
        /\ connections' =
             IF data.type = "IDENTITY_EXCHANGE"
                /\ \E m \in Nodes : UserOf(m).username = data.username
                                    /\ UserOf(m).publicKey = data.publicKey
             THEN [connections EXCEPT ![n] = MapSet(@, NodeIdNoTrim(data.username), c)]
             ELSE connections
        /\ Len(r.messages) <= MaxMessages
        /\ messages' = [messages EXCEPT ![n] = r.messages]
        /\ out' = [Quiet("conn.data", n) EXCEPT !.logs = r.logs]

\* conn.on('data') of setupConnection on the end `side` of connection c
dataHandler(n, c, data) ==
    \E r \in {IF "app" \in handlers[n] THEN appHandler(n, data)
              ELSE [messages |-> messages[n], logs |-> <<>>]} :
        /\ connections' =
             IF data.type = "IDENTITY_EXCHANGE"
             THEN [connections EXCEPT ![n] = MapSet(@, NodeIdNoTrim(data.username), c)]
             ELSE connections
        /\ Len(r.messages) <= MaxMessages
        /\ messages' = [messages EXCEPT ![n] = r.messages]
        /\ out' = [Quiet("conn.data", n) EXCEPT !.logs = r.logs]

(***************************************************************************)
(* Connection events                                                       *)
(***************************************************************************)
\* peer.on('connection'): setupConnection(conn) on the receiving device
setupInbound(n, cs, c) ==
    [cs EXCEPT ![c].b.setup = setupAttaches(connections[n], cs, n, cs[c].b.peer),
               ![c].announced = TRUE]

\* an inbound connection from a peer that is not a device of the model
EnvInbound(n, remoteId) ==
    /\ peer[n] # 0 /\ peerObjs[peer[n]].open
    /\ Len(conns) < MaxConns
    /\ conns' = setupInbound(n,
                   Append(conns, [a |-> NewEnd("env", myId[n]), b |-> NewEnd(n, remoteId),
                                  via |-> "remote",
                                  announced |-> FALSE]),
                   Len(conns) + 1)
    /\ UNCHANGED <<svcVars, peerObjs, timers, appVars, labVars, attempts>>
    /\ out' = Quiet("peer.connection", n)

\* the connection requested by another device arrives
MeshInbound(c) ==
    LET n == conns[c].b.node IN
    /\ n \in Nodes /\ ~conns[c].announced
    /\ peer[n] # 0 /\ peerObjs[peer[n]].open
    /\ conns' = setupInbound(n, conns, c)
    /\ UNCHANGED <<svcVars, peerObjs, timers, appVars, labVars, attempts>>
    /\ out' = Quiet("peer.connection", n)

\* conn.on('open') that also sends what the device's other pending connections
\* to the same peer had queued: an outbox kept per peer
ConnOpenFlushes(c, side) ==
    LET e == conns[c][side]
        n == e.node
        held == {d \in 1..Len(conns) :
                   /\ d # c /\ conns[d].a.node = n /\ conns[d].a.peer = e.peer
                   /\ ~conns[d].a.open /\ conns[d].a.queued # <<>>}
        records == (IF e.setup /\ myUser[n] # NoUser
                    THEN <<IdentityRecord(myUser[n])>> ELSE <<>>) \o e.queued
                   \o (IF held = {} THEN <<>> ELSE conns[CHOOSE d \in held : TRUE].a.queued)
    IN  /\ n \in Nodes /\ ~e.open /\ ~e.closed
        /\ conns[c].b.node \in Nodes \/ side = "b" => conns[c].announced
        /\ Len(e.sent) + Len(records) <= MaxSent
        /\ conns' = [conns EXCEPT ![c][side] =
                       [e EXCEPT !.open = TRUE, !.sent = @ \o records, !.queued = <<>>]]
        /\ connections' = IF e.setup
                          THEN [connections EXCEPT ![n] = MapSet(@, e.peer, c)]
                          ELSE connections
        /\ UNCHANGED <<peer, handlers, errorHandlers, myId, myUser, isOnline, reconnectDelay,
                       reconnectTimeout, isDestroyed, peerObjs, timers, appVars, labVars,
                       attempts>>
        /\ out' = Quiet("conn.open", n)

\* conn.on('open') handlers run in the other order: what send() queued goes out
\* before the identity record
ConnOpenChatFirst(c, side) ==
    LET e == conns[c][side]
        n == e.node
        records == e.queued \o (IF e.setup /\ myUser[n] # NoUser
                                THEN <<IdentityRecord(myUser[n])>> ELSE <<>>)
    IN  /\ n \in Nodes /\ ~e.open /\ ~e.closed
        /\ conns[c].b.node \in Nodes \/ side = "b" => conns[c].announced
        /\ Len(e.sent) + Len(records) <= MaxSent
        /\ conns' = [conns EXCEPT ![c][side] =
                       [e EXCEPT !.open = TRUE, !.sent = @ \o records, !.queued = <<>>]]
        /\ connections' = IF e.setup
                          THEN [connections EXCEPT ![n] = MapSet(@, e.peer, c)]
                          ELSE connections
        /\ UNCHANGED <<peer, handlers, errorHandlers, myId, myUser, isOnline, reconnectDelay,
                       reconnectTimeout, isDestroyed, peerObjs, timers, appVars, labVars,
                       attempts>>
        /\ out' = Quiet("conn.open", n)

\* conn.on('open') handlers, in the order they were attached: the one of
\* setupConnection, then the ones send() queued
ConnOpen(c, side) ==
    LET e == conns[c][side]
        n == e.node
        records == (IF e.setup /\ myUser[n] # NoUser
                    THEN <<IdentityRecord(myUser[n])>> ELSE <<>>) \o e.queued
    IN  /\ n \in Nodes /\ ~e.open /\ ~e.closed
        /\ conns[c].b.node \in Nodes \/ side = "b" => conns[c].announced
        /\ Len(e.sent) + Len(records) <= MaxSent
        /\ conns' = [conns EXCEPT ![c][side] =
                       [e EXCEPT !.open = TRUE, !.sent = @ \o records, !.queued = <<>>]]
        /\ connections' = IF e.setup
                          THEN [connections EXCEPT ![n] = MapSet(@, e.peer, c)]
                          ELSE connections
        /\ UNCHANGED <<peer, handlers, errorHandlers, myId, myUser, isOnline, reconnectDelay,
                       reconnectTimeout, isDestroyed, peerObjs, timers, appVars, labVars,
                       attempts>>
        /\ out' = Quiet("conn.open", n)

\* records a remote peer that is not a device of the model may send
EnvRecords ==
    {IdentityRecord(UserOf("bob")),
     ChatRecord(Envelope(UserOf("bob"), UserOf("alice"), <<104, 105>>, <<17, 4>>, <<1, 2, 3>>))}

\* IDENTITY_EXCHANGE records naming bob that carry bob's public key, alice's,
\* or one the registry does not list
HandshakeRecords ==
    {[IdentityRecord(UserOf("bob")) EXCEPT !.publicKey = publicKeyOf(pair)] :
        pair \in {1, 2, 3}}

\* IDENTITY_EXCHANGE records of bob naming him "Bo", "BO" or " Bo"
IdentityRecords ==
    {[IdentityRecord(UserOf("bob")) EXCEPT !.username = name] :
        name \in {<<66, 111>>, <<66, 79>>, <<32, 66, 111>>}}

\* a record arrives from a remote peer that is not a device of the model
EnvData(c, side, data) ==
    LET e == conns[c][side] IN
    /\ e.node \in Nodes /\ e.open
    /\ conns[c][Other(side)].node = "env"
    /\ IF e.setup THEN dataHandler(e.node, c, data)
       ELSE UNCHANGED <<connections, messages>> /\ out' = Quiet("conn.data", e.node)
    /\ UNCHANGED <<peer, handlers, errorHandlers, myId, myUser, isOnline, reconnectDelay,
                   reconnectTimeout, isDestroyed, netVars, authState, labVars, attempts>>

\* the next record the device at the other end sent arrives
MeshData(c, side) ==
    LET e == conns[c][side]
        o == conns[c][Other(side)]
    IN  /\ e.node \in Nodes /\ o.node \in Nodes
        /\ e.open /\ e.rcvd < Len(o.sent)
        /\ conns' = [conns EXCEPT ![c][side].rcvd = @ + 1]
        /\ IF e.setup THEN dataHandler(e.node, c, o.sent[e.rcvd + 1])
           ELSE UNCHANGED <<connections, messages>> /\ out' = Quiet("conn.data", e.node)
        /\ UNCHANGED <<peer, handlers, errorHandlers, myId, myUser, isOnline, reconnectDelay,
                       reconnectTimeout, isDestroyed, peerObjs, timers, authState, labVars,
                       attempts>>

\* const cleanup = () => this.connections.delete(conn.peer)
cleanup(n, e) ==
    IF e.setup THEN [connections EXCEPT ![n] = MapDelete(@, e.peer)] ELSE connections

\* conn.on('close')
ConnClose(c, side) ==
    LET e == conns[c][side] IN
    /\ e.node \in Nodes /\ ~e.closed
    /\ conns' = [conns EXCEPT ![c][side] = Closed(@)]
    /\ connections' = cleanup(e.node, e)
    /\ UNCHANGED <<peer, handlers, errorHandlers, myId, myUser, isOnline, reconnectDelay,
                   reconnectTimeout, isDestroyed, peerObjs, timers, appVars, labVars,
                   attempts>>
    /\ out' = Quiet("conn.close", e.node)

\* conn.on('error')
ConnError(c, side) ==
    LET e == conns[c][side] IN
    /\ e.node \in Nodes /\ ~e.closed
    /\ connections' = cleanup(e.node, e)
    /\ UNCHANGED <<peer, handlers, errorHandlers, myId, myUser, isOnline, reconnectDelay,
                   reconnectTimeout, isDestroyed, netVars, appVars, labVars, attempts>>
    /\ out' = Quiet("conn.error", e.node)

(***************************************************************************)
(* App.tsx: authentication, the session effect, sendMessage                *)
(***************************************************************************)
\* handleAuth succeeded: setAuthState({user, isAuthenticated: true, privateKey}),
\* and the effect that runs on it: init, onMessage, onError
SessionStart(n) ==
    /\ ~authState[n].isAuthenticated
    /\ authState' = [authState EXCEPT
                       ![n] = [isAuthenticated |-> TRUE, user |-> UserOf(n),
                               privateKey |-> PairOf(n)]]
    /\ Room(n, Cardinality(Nodes))
    /\ init(n, UserOf(n), "app")
    /\ handlers' = [handlers EXCEPT ![n] = @ \cup {"app"}]
    /\ errorHandlers' = [errorHandlers EXCEPT ![n] = @ \cup {"log"}]
    /\ UNCHANGED <<connections, isOnline, reconnectDelay, reconnectTimeout, conns, timers,
                   messages, labVars, attempts>>
    /\ out' = Quiet("session", n)

\* sendMessage() wrapping the session key under the sender's own public key
sendMessageWrapsForSender(n, text, m, key, iv) ==
    /\ trim(text) # <<>> /\ authState[n].isAuthenticated
    /\ Len(messages[n]) < MaxMessages
    /\ \E sealed \in {encryptWithAES(text, key, iv)},
          wrapped \in {encryptKeyWithRSA(key, authState[n].user.publicKey)} :
          IF wrapped.ok
          THEN \E msg \in {[senderId |-> authState[n].user.username,
                            recipientId |-> UserOf(m).username, isGroup |-> FALSE,
                            encryptedContent |-> sealed.ciphertext,
                            encryptedSessionKey |-> wrapped.v, iv |-> sealed.iv,
                            hmac |-> "GCM-SECURE"]} :
               \E sthrows, cthrows \in BOOLEAN :
               \E r \in {send(n, msg, connections[n], conns, sthrows, cthrows, 1)} :
                  /\ SendFits(r)
                  /\ connections' = [connections EXCEPT ![n] = r.reg]
                  /\ conns' = r.cs
                  /\ messages' = [messages EXCEPT ![n] =
                        Append(@, [data |-> msg, decryptedContent |-> text,
                                   received |-> FALSE])]
                  /\ out' = [Quiet("sendMessage", n) EXCEPT
                               !.errs = r.errs, !.connects = r.connects,
                               !.calls = r.calls, !.logs = <<"ENCRYPTION">>]
          ELSE /\ UNCHANGED <<connections, conns, messages>>
               /\ out' = [Quiet("sendMessage", n) EXCEPT !.logs = <<"ENCRYPTION_ERROR">>]

\* sendMessage() with inputText = text and activeRecipient = the registry's
\* record of device m; key and iv are what generateAESKey() and
\* getRandomValues() return.  (A value bound by \E x \in {e} is computed once.)
sendMessage(n, text, m, key, iv) ==
    /\ trim(text) # <<>> /\ authState[n].isAuthenticated
    /\ Len(messages[n]) < MaxMessages
    /\ \E sealed \in {encryptWithAES(text, key, iv)},
          wrapped \in {encryptKeyWithRSA(key, UserOf(m).publicKey)} :
          IF wrapped.ok
          THEN \E msg \in {[senderId |-> authState[n].user.username,
                            recipientId |-> UserOf(m).username, isGroup |-> FALSE,
                            encryptedContent |-> sealed.ciphertext,
                            encryptedSessionKey |-> wrapped.v, iv |-> sealed.iv,
                            hmac |-> "GCM-SECURE"]} :
               \E sthrows, cthrows \in BOOLEAN :
               \E r \in {send(n, msg, connections[n], conns, sthrows, cthrows, 1)} :
                  /\ SendFits(r)
                  /\ connections' = [connections EXCEPT ![n] = r.reg]
                  /\ conns' = r.cs
                  /\ messages' = [messages EXCEPT ![n] =
                        Append(@, [data |-> msg, decryptedContent |-> text,
                                   received |-> FALSE])]
                  /\ out' = [Quiet("sendMessage", n) EXCEPT
                               !.errs = r.errs, !.connects = r.connects,
                               !.calls = r.calls, !.logs = <<"ENCRYPTION">>]
          ELSE /\ UNCHANGED <<connections, conns, messages>>
               /\ out' = [Quiet("sendMessage", n) EXCEPT !.logs = <<"ENCRYPTION_ERROR">>]

SendMessage(n, text, m, key, iv) ==
    /\ m # n
    /\ sendMessage(n, text, m, key, iv)
    /\ UNCHANGED <<peer, handlers, errorHandlers, myId, myUser, isOnline, reconnectDelay,
                   reconnectTimeout, isDestroyed, peerObjs, timers, authState, labVars,
                   attempts>>

(***************************************************************************)
(* An adversary on the path of an envelope                                 *)
(***************************************************************************)
\* the adversary picks up an envelope a device sent
Intercept(n, i) ==
    /\ i \in 1..Len(messages[n]) /\ ~messages[n][i].received
    /\ wire' = [orig |-> messages[n][i].data, cur |-> messages[n][i].data,
                plain |-> messages[n][i].decryptedContent]
    /\ UNCHANGED <<svcVars, netVars, appVars, keyLab, idLab, regVars, attempts>>
    /\ out' = Quiet("intercept", n)

\* ways to change a base64 text: another first character, another low bit in
\* the last character before the padding, a blank appended, the last group cut
Changes == {"first", "lastbit", "blank", "cut"}

Changed(b64, how) ==
    LET n == Len(StripPadding(b64)) IN
    IF how = "first" THEN [b64 EXCEPT ![1] = (@ + 1) % 64]
    ELSE IF how = "lastbit"
    THEN [b64 EXCEPT ![n] = IF @ % 2 = 0 THEN @ + 1 ELSE @ - 1]
    ELSE IF how = "blank" THEN Append(b64, 65)
    ELSE SubSeq(b64, 1, Len(b64) - 4)

\* the adversary changes the encryptedContent or the hmac field
Tamper(field, how) ==
    /\ wire # NoEnvelope
    /\ wire.cur = wire.orig
    /\ wire' = IF field = "hmac"
               THEN [wire EXCEPT !.cur.hmac = "TAMPERED"]
               ELSE [wire EXCEPT !.cur.encryptedContent = Changed(@, how)]
    /\ UNCHANGED <<svcVars, netVars, appVars, keyLab, idLab, regVars, attempts>>
    /\ out' = Quiet("tamper", "")

\* the envelope reaches the message handlers of device n as a CHAT record
Inject(n) ==
    /\ wire # NoEnvelope
    /\ "app" \in handlers[n]
    /\ \E r \in {appHandler(n, ChatRecord(wire.cur))} :
          /\ Len(r.messages) <= MaxMessages
          /\ messages' = [messages EXCEPT ![n] = r.messages]
          /\ out' = [Quiet("inject", n) EXCEPT !.logs = r.logs]
    /\ UNCHANGED <<svcVars, netVars, authState, labVars, attempts>>

(***************************************************************************)
(* Protection of the private key at rest                                   *)
(***************************************************************************)
\* "pw1", "pw2", "Pw1", "pw"
Passwords == {<<112, 119, 49>>, <<112, 119, 50>>, <<80, 119, 49>>, <<112, 119>>}

\* protectPrivateKey(k, deriveKeyFromPassword(password, username))
ProtectKey(pair, password, username, iv) ==
    /\ keyLab' = [stage |-> "protected", pair |-> pair, password |-> password,
                  username |-> username, tried |-> <<>>,
                  blob |-> protectPrivateKey(pair, deriveKeyFromPassword(password, username), iv),
                  result |-> Throw("")]
    /\ UNCHANGED <<svcVars, netVars, appVars, wire, idLab, regVars, attempts>>
    /\ out' = Quiet("protect", "")

\* recoverPrivateKey(blob, deriveKeyFromPassword(password, username), iv)
RecoverKey(password) ==
    /\ keyLab.stage # "none"
    /\ keyLab' = [keyLab EXCEPT
                    !.stage = "recovered", !.tried = password,
                    !.result = recoverPrivateKey(keyLab.blob.data,
                                   deriveKeyFromPassword(password, keyLab.username),
                                   keyLab.blob.iv)]
    /\ UNCHANGED <<svcVars, netVars, appVars, wire, idLab, regVars, attempts>>
    /\ out' = Quiet("recover", "")

(***************************************************************************)
(* The places that derive a NodeId from a username                         *)
(***************************************************************************)
\* the status line of a contact: `ST-${u.username.toLowerCase()}`
reachabilityId(username) == Prefix \o toLowerCase(username)

\* the NodeId each place derives from a username
Derivations(username) ==
    [init |-> NodeIdOf(username),
     connectToPeer |-> NodeIdOf(username),
     send |-> NodeIdOf(username),
     setupConnection |-> NodeIdNoTrim(username),
     reachability |-> reachabilityId(username)]

Places == {"init", "connectToPeer", "send", "setupConnection", "reachability"}

\* usernames over 'A', 'a' and the blank that are not blank altogether
Usernames == {u \in UNION {[1..k -> {65, 97, 32}] : k \in 1..MaxName} : trim(u) # <<>>}

\* every place derives the NodeId of two usernames
DeriveIds(u, w) ==
    /\ idLab' = [stage |-> "derived", a |-> u, b |-> w,
                 ida |-> Derivations(u), idb |-> Derivations(w)]
    /\ UNCHANGED <<svcVars, netVars, appVars, wire, keyLab, regVars, attempts>>
    /\ out' = Quiet("derive", "")

(***************************************************************************)
(* Registration and login: handleAuth over apiService                      *)
(***************************************************************************)
MaxUsers == 2

\* the ids the cloud store issues, in order
CloudIds == <<"1", "2", "3", "4">>

\* the names typed into the form: "Ann", " ann ", "Al"
FormNames == {<<65, 110, 110>>, <<32, 97, 110, 110, 32>>, <<65, 108>>}
\* the keyphrases typed into the form: "secret", "Secret", "pw1"
FormPasswords ==
    {<<115, 101, 99, 114, 101, 116>>, <<83, 101, 99, 114, 101, 116>>, <<112, 119, 49>>}

\* SHA-256 of the text, in base64
computeHash(text) == bufferToBase64(<<Digest(TextEncode(text))>>)

\* new Map() filled by map.set(u.username.toLowerCase().trim(), u): a record
\* under a key that is present takes the place of the earlier one
RECURSIVE MapByName(_, _)
MapByName(acc, users) ==
    IF users = <<>> THEN acc
    ELSE LET u == Head(users)
             at == {i \in 1..Len(acc) :
                       trim(toLowerCase(acc[i].username)) = trim(toLowerCase(u.username))}
         IN  MapByName(IF u.username = <<>> THEN acc
                       ELSE IF at = {} THEN Append(acc, u)
                       ELSE [acc EXCEPT ![CHOOSE i \in at : TRUE] = u],
                       Tail(users))

\* the records of the device's localStorage and, when the fetch succeeds, of the cloud
getAllUsersInternal(n, up) == MapByName(<<>>, vault[n] \o (IF up THEN cloud ELSE <<>>))

\* allUsers.find(u => u.username.toLowerCase().trim() === normalizedInput)
Find(allUsers, normalizedInput) ==
    LET at == {i \in 1..Len(allUsers) :
                  trim(toLowerCase(allUsers[i].username)) = normalizedInput}
    IN  IF at = {} THEN Throw("NOT_FOUND")
        ELSE Ok(allUsers[CHOOSE i \in at : \A j \in at : i <= j])

\* apiService.login(username)
login(n, username, up) == Find(getAllUsersInternal(n, up), toLowerCase(trim(username)))

\* the checks of the form that come before either branch of handleAuth
FormError(username, password) ==
    IF Len(trim(username)) < 3 THEN "UID_TOO_SHORT"
    ELSE IF Len(password) < 6 THEN "KEYPHRASE_TOO_SHORT"
    ELSE ""

\* handleAuth, registering, up to the collision check of apiService.register
RegisterCheck(n, username, password, pair, iv, up) ==
    /\ ~authState[n].isAuthenticated
    /\ pending[n].stage = "none"
    /\ Len(vault[n]) < MaxUsers
    /\ \E cleanUsername \in {trim(username)} :
          IF FormError(username, password) # ""
          THEN /\ out' = [Quiet("register", n) EXCEPT !.errs = <<FormError(username, password)>>]
               /\ UNCHANGED pending
          ELSE \E protectedKey \in {protectPrivateKey(pair,
                                       deriveKeyFromPassword(password, cleanUsername), iv)} :
                  IF Find(getAllUsersInternal(n, up), toLowerCase(trim(cleanUsername))).ok
                  THEN /\ out' = [Quiet("register", n) EXCEPT !.errs = <<"IDENTITY_EXISTS">>]
                       /\ UNCHANGED pending
                  ELSE /\ pending' = [pending EXCEPT ![n] =
                                        [stage |-> "posting", privateKey |-> pair,
                                         payload |-> [id |-> "",
                                                      username |-> trim(cleanUsername),
                                                      publicKey |-> publicKeyOf(pair),
                                                      encryptedPriv |-> protectedKey.data,
                                                      privIv |-> protectedKey.iv,
                                                      passwordHash |-> computeHash(password)]]]
                       /\ out' = Quiet("register", n)
    /\ UNCHANGED <<svcVars, netVars, appVars, wire, keyLab, idLab, cloud, vault, attempts>>

\* apiService.register from the POST on, and the rest of handleAuth: the cloud
\* stores the record when the request succeeds, the device's localStorage
\* always does, and the session is authenticated
RegisterStore(n, posted) ==
    /\ pending[n].stage = "posting"
    /\ posted => Len(cloud) < MaxUsers
    /\ \E cloudId \in {IF posted THEN CloudIds[Len(cloud) + 1] ELSE ""} :
       \E localEntry \in {[pending[n].payload EXCEPT
                              !.id = IF cloudId # "" THEN cloudId ELSE "local"]} :
          /\ cloud' = IF posted THEN Append(cloud, [pending[n].payload EXCEPT !.id = cloudId])
                      ELSE cloud
          /\ vault' = [vault EXCEPT ![n] = Append(@, localEntry)]
          /\ authState' = [authState EXCEPT ![n] =
                              [isAuthenticated |-> TRUE,
                               user |-> [id |-> localEntry.id,
                                         username |-> localEntry.username,
                                         publicKey |-> localEntry.publicKey],
                               privateKey |-> pending[n].privateKey]]
    /\ pending' = [pending EXCEPT ![n] = [stage |-> "none"]]
    /\ out' = [Quiet("registered", n) EXCEPT !.logs = <<"Identity published to Hybrid Vault.">>]
    /\ UNCHANGED <<svcVars, netVars, messages, wire, keyLab, idLab, attempts>>

\* handleAuth, logging in: what the attempt ends with
handleAuthLogin(n, username, password, up) ==
    LET cleanUsername == trim(username)
        userData == login(n, cleanUsername, up)
    IN  IF FormError(username, password) # "" THEN Throw(FormError(username, password))
        ELSE IF ~userData.ok THEN userData
        ELSE IF userData.v.passwordHash # computeHash(password)
        THEN Throw("INVALID_KEYPHRASE")
        ELSE LET privateKey == recoverPrivateKey(userData.v.encryptedPriv,
                                   deriveKeyFromPassword(password, cleanUsername),
                                   userData.v.privIv)
             IN  IF ~privateKey.ok THEN privateKey
                 ELSE Ok([isAuthenticated |-> TRUE,
                          user |-> [id |-> userData.v.id,
                                    username |-> userData.v.username,
                                    publicKey |-> userData.v.publicKey],
                          privateKey |-> privateKey.v])

Login(n, username, password, up) ==
    /\ ~authState[n].isAuthenticated
    /\ pending[n].stage = "none"
    /\ \E r \in {handleAuthLogin(n, username, password, up)} :
          IF r.ok
          THEN /\ authState' = [authState EXCEPT ![n] = r.v]
               /\ out' = [Quiet("login", n) EXCEPT
                            !.logs = <<"Zero-knowledge session initialized.">>]
          ELSE /\ UNCHANGED authState
               /\ out' = [Quiet("login", n) EXCEPT !.errs = <<r.err>>]
    /\ UNCHANGED <<svcVars, netVars, messages, labVars, attempts>>

\* the page is loaded again: the session is gone, the stores are not
Reload(n) ==
    /\ authState[n].isAuthenticated
    /\ authState' = [authState EXCEPT ![n] =
                        [isAuthenticated |-> FALSE, user |-> NoUser, privateKey |-> 0]]
    /\ out' = Quiet("reload", n)
    /\ UNCHANGED <<svcVars, netVars, messages, labVars, attempts>>

(***************************************************************************)
(* Specifications                                                          *)
(***************************************************************************)
\* one device's service against an arbitrary transport and arbitrary peers
Local == "alice"

Next ==
    \/ CallInit(Local, UserOf(Local), 1)
    \/ Subscribe(Local)
    \/ \E t \in TargetNames : ConnectToPeer(Local, t)
    \/ \E m \in ApiMessages(Local) : Send(Local, m)
    \/ Destroy(Local)
    \/ \E r \in RemoteIds : EnvInbound(Local, r)
    \/ \E h \in 1..Len(peerObjs) : PeerOpen(h)
    \/ \E h \in 1..Len(peerObjs) : PeerDisconnected(h)
    \/ \E h \in 1..Len(peerObjs), t \in ErrorTypes : PeerError(h, t, NodeIdOf(NameOf("bob")))
    \/ \E c \in 1..Len(conns), side \in {"a", "b"} : ConnOpen(c, side)
    \/ \E c \in 1..Len(conns), side \in {"a", "b"}, d \in EnvRecords : EnvData(c, side, d)
    \/ \E c \in 1..Len(conns), side \in {"a", "b"} : ConnClose(c, side)
    \/ \E c \in 1..Len(conns), side \in {"a", "b"} : ConnError(c, side)

Spec == Init /\ [][Next]_vars

\* the lifecycle of one device's service alone: every transport event and the
\* reconnect timer, followed through enough attempts for the delay to reach
\* its maximum
LifecycleNext ==
    \/ \E u \in InitUsers(Local) : CallInit(Local, u, MaxHandles)
    \/ Destroy(Local)
    \/ TimerFires(Local, MaxBackoff, MaxHandles)
    \/ \E h \in 1..Len(peerObjs) : PeerOpen(h)
    \/ \E h \in 1..Len(peerObjs) : PeerDisconnected(h)
    \/ \E h \in 1..Len(peerObjs) : PeerClose(h)
    \/ \E h \in 1..Len(peerObjs) : PeerFatal(h)
    \/ \E h \in 1..Len(peerObjs) : PeerError(h, "network", <<>>)

LifecycleSpec == Init /\ [][LifecycleNext]_vars

\* two devices running the application over a transport on which handles and
\* connections stay up; a connection opens only between two registered devices
MeshNext ==
    \/ \E n \in Nodes : SessionStart(n)
    \/ \E h \in 1..Len(peerObjs) : PeerOpen(h)
    \/ \E n, m \in Nodes : m # n /\ ConnectToPeer(n, NameOf(m))
    \/ \E n, m \in Nodes : SendMessage(n, <<104, 105>>, m, <<17, 4>>, <<1, 2, 3>>)
    \/ \E c \in 1..Len(conns) : MeshInbound(c)
    \/ \E c \in 1..Len(conns), side \in {"a", "b"} :
          conns[c].b.node \in Nodes /\ ConnOpen(c, side)
    \/ \E c \in 1..Len(conns), side \in {"a", "b"} : MeshData(c, side)

MeshSpec == Init /\ [][MeshNext]_vars

\* the envelope cryptography of the application: alice writes to bob, an
\* adversary on the path hands envelopes to either device
CryptoNext ==
    \/ \E n \in Nodes : SessionStart(n)
    \/ \E text \in Plaintexts, key \in SessionKeys, iv \in Nonces :
           SendMessage("alice", text, "bob", key, iv)
    \/ \E i \in 1..MaxMessages : Intercept("alice", i)
    \/ Tamper("hmac", "first")
    \/ \E how \in Changes : Tamper("encryptedContent", how)
    \/ \E n \in Nodes : Inject(n)

CryptoSpec == Init /\ [][CryptoNext]_vars

\* the protection of the private key at rest
VaultNext ==
    \/ \E pair \in {1, 2}, password \in Passwords, n \in Nodes, iv \in Nonces :
           ProtectKey(pair, password, NameOf(n), iv)
    \/ \E password \in Passwords : RecoverKey(password)

VaultSpec == Init /\ [][VaultNext]_vars

\* registration and login of the devices against the identity registry
AuthNext ==
    \/ \E n \in Nodes, username \in FormNames, password \in FormPasswords,
          up \in BOOLEAN :
           RegisterCheck(n, username, password, PairOf(n), <<1, 2, 3>>, up)
    \/ \E n \in Nodes, posted \in BOOLEAN : RegisterStore(n, posted)
    \/ \E n \in Nodes, username \in FormNames, password \in FormPasswords, up \in BOOLEAN :
           Login(n, username, password, up)
    \/ \E n \in Nodes : Reload(n)

AuthSpec == Init /\ [][AuthNext]_vars
(***************************************************************************)
(* Properties                                                              *)
(***************************************************************************)
SentBy(n) == {i \in 1..Len(messages[n]) : ~messages[n][i].received}
ReceivedBy(n) == {i \in 1..Len(messages[n]) : messages[n][i].received}

\* C2: an envelope whose encryptedContent or hmac field was changed on the way
\* fails to decrypt at the receiver (a DECRYPTION_ERROR is logged), and the
\* receiver appends no message for it whose plaintext differs from the one the
\* sender encrypted
TamperDetected ==
    out.op = "inject" /\ wire.cur # wire.orig =>
        /\ out.logs = <<"DECRYPTION_ERROR">>
        /\ \A i \in ReceivedBy(out.node) :
              messages[out.node][i].data = wire.cur =>
                  messages[out.node][i].decryptedContent = wire.plain

\* C3: every envelope sendMessage sealed for bob opens with bob's private key
\* to exactly the plaintext that was sealed, and does not open with the private
\* key of another identity
EnvelopeRoundTrip ==
    \A i \in SentBy("alice") :
        /\ Opened(messages["alice"][i].data, PairOf("bob"))
             = Ok(messages["alice"][i].decryptedContent)
        /\ ~Opened(messages["alice"][i].data, PairOf("alice")).ok

\* C4: recovering a protected private key with the master key of the same
\* password and username returns that key; with the master key of any other
\* password (same username) recovery fails with an error and returns no key
KeyRecovery ==
    keyLab.stage = "recovered" =>
        IF keyLab.tried = keyLab.password
        THEN keyLab.result = Ok(keyLab.pair)
        ELSE ~keyLab.result.ok /\ keyLab.result.err # ""

\* a recovery was tried with another password and failed
KeyRecoveryRefused ==
    /\ keyLab.stage = "recovered"
    /\ keyLab.tried # keyLab.password
    /\ ~keyLab.result.ok

LiveHandle(n) == peer[n] # 0 /\ ~peerObjs[peer[n]].destroyed

RECURSIVE Pow(_, _)
Pow(b, e) == IF e = 0 THEN 1 ELSE b * Pow(b, e - 1)

\* min(d0 * m^N, dmax) for d0 = 1000 ms, m = 3/2, dmax = 30000 ms, in 1/512 ms;
\* from N = 9 on d0 * m^N is above dmax
BackoffDelay(N) ==
    IF N <= 9 THEN Min(1000 * Pow(3, N) * Pow(2, 9 - N), Ticks(30000)) ELSE Ticks(30000)

\* C5: after N reconnect attempts since the last transport 'open' (or since
\* construction) the reconnect delay, and the delay any timer is scheduled
\* with, is min(1000 * 1.5^N, 30000) ms; only a transport 'open' takes it back
\* to 1000 ms
ReconnectBackoff ==
    /\ reconnectDelay[Local] = BackoffDelay(attempts[Local])
    /\ out.sched # 0 => out.sched = BackoffDelay(attempts[Local])

\* a timer is scheduled with the ceiling delay after nine attempts
BackoffAtCeiling ==
    /\ attempts[Local] = 9
    /\ out.sched = Ticks(30000)

\* C6: at most one reconnect timer is pending; a 'disconnected' or 'close'
\* event that arrives while the node is Online leaves it not Online with
\* exactly one timer pending; a 'disconnected', 'close' or 'network' error
\* event that arrives while a timer is pending schedules no other timer
SingleReconnectTimer ==
    [][/\ timers'[Local] <= 1
       /\ (out'.op \in {"peer.disconnected", "peer.close"} /\ isOnline[Local]) =>
             ~isOnline'[Local] /\ timers'[Local] = 1
       /\ (/\ \/ out'.op \in {"peer.disconnected", "peer.close"}
              \/ out'.op = "peer.error" /\ out'.errs = <<"network">>
           /\ timers[Local] = 1) => timers'[Local] = 1]_vars

\* C7: once destroy() has run, and until the caller calls init again, no step
\* schedules a reconnect timer, leaves the service with a live transport
\* handle or makes the node Online
DestroyTerminal ==
    [][isDestroyed[Local] /\ out'.op # "init" =>
          /\ timers'[Local] <= timers[Local]
          /\ ~LiveHandle(Local)'
          /\ ~isOnline'[Local]]_vars

\* C8: a send() call invokes send() once or twice.  It invokes it twice only
\* when conn.send threw on the registered open connection: that entry is then
\* gone from the registry, 'send-fail' was reported, and the second invocation
\* took the connect path once and either requested a connection or reported
\* 'send-fail' for it; it did not invoke send() again
BoundedSendRetry ==
    [][out'.op = "send" =>
          /\ out'.calls \in {1, 2}
          /\ out'.calls = 2 =>
                /\ Len(out'.connects) = 1
                /\ IsOpenIn(connections[Local], conns, Local, out'.connects[1])
                /\ out'.connects[1] \notin DOMAIN connections'[Local]
                /\ \/ out'.errs = <<"send-fail">> /\ Len(conns') = Len(conns) + 1
                   \/ out'.errs = <<"send-fail", "send-fail">> /\ conns' = conns]_vars

\* a send() call retried and requested a new connection
SendRetried ==
    /\ out.op = "send" /\ out.calls = 2
    /\ out.errs = <<"send-fail">>

\* C9: send() on a node that is not Online reports one 'transport' error,
\* requests no connection, sends nothing and leaves the registry, the error
\* handlers and the reconnect state as they were
SendFailsFast ==
    [][out'.op = "send" /\ ~isOnline[Local] =>
          /\ out'.errs = <<"transport">> /\ out'.calls = 1
          /\ out'.connects = <<>>
          /\ conns' = conns
          /\ connections' = connections
          /\ errorHandlers' = errorHandlers
          /\ reconnectDelay' = reconnectDelay
          /\ reconnectTimeout' = reconnectTimeout
          /\ timers' = timers]_vars

\* send() failed fast on a node that holds a registered connection and a
\* pending reconnect timer
SentWhileOffline ==
    /\ out.op = "send" /\ out.errs = <<"transport">>
    /\ ~isOnline[Local]
    /\ DOMAIN connections[Local] # {}
    /\ timers[Local] = 1

\* the usernames that trim and lower-case to the node's own
SelfNames ==
    {t \in TargetNames : toLowerCase(trim(t)) = toLowerCase(trim(myUser[Local].username))}

\* C10: on an initialised node, connectToPeer with any username that trims
\* and lower-cases to the node's own requests no connection, reports no error
\* and leaves the registry and the connections as they were
ConnectToSelfNoOp ==
    [][out'.op = "connectToPeer" /\ myUser[Local] # NoUser =>
        \A t \in SelfNames :
          ConnectToPeer(Local, t) =>
              /\ out'.connects = <<>> /\ out'.errs = <<>>
              /\ conns' = conns
              /\ connections' = connections]_vars

\* connectToPeer did nothing on a node that is Online and has no open
\* connection: it was called with the node's own name
ConnectedToSelf ==
    /\ out.op = "connectToPeer" /\ out.errs = <<>> /\ out.connects = <<>>
    /\ isOnline[Local] /\ LiveHandle(Local)
    /\ getActiveConnections(Local) = {}

\* C1: a sendMessage requests at most one connection.  On a connection alice's
\* send() requested to bob, alice sends, once it is open, her
\* IDENTITY_EXCHANGE record and then the one CHAT record; once bob's end has
\* taken both records, bob's message list holds that envelope with the
\* plaintext alice sealed
SendDelivers ==
    /\ out.op = "sendMessage" => Len(out.connects) <= 1
    /\ \A c \in 1..Len(conns) :
          (conns[c].via = "send" /\ conns[c].a.node = "alice" /\ conns[c].b.node = "bob") =>
             /\ conns[c].a.open =>
                   /\ Len(conns[c].a.sent) = 2
                   /\ conns[c].a.sent[1] = IdentityRecord(myUser["alice"])
                   /\ conns[c].a.sent[2].type = "CHAT"
             /\ conns[c].b.rcvd >= 2 =>
                   \E i \in ReceivedBy("bob"), j \in SentBy("alice") :
                      /\ messages["bob"][i].data = conns[c].a.sent[2].data
                      /\ messages["alice"][j].data = conns[c].a.sent[2].data
                      /\ messages["bob"][i].decryptedContent
                           = messages["alice"][j].decryptedContent

\* the CHAT records among the records an end has sent
Chats(e) == SelectSeq(e.sent, LAMBDA r : r.type = "CHAT")

\* the connections of the device that are open at its end and lead to peer id
OpenTo(n, id) ==
    {c \in 1..Len(conns) : \E side \in {"a", "b"} :
        conns[c][side].node = n /\ conns[c][side].peer = id /\ conns[c][side].open}

\* C11: a 'peer-unavailable' error of the transport is handed to the error
\* handlers and transmits nothing.  The envelope send() attached to the
\* connection it requested is transmitted only when that connection opens:
\* a CHAT record goes out on a connection end only in a send() call that found
\* this connection registered and open, or when this very end opens, and
\* then it is what send() attached to it; no other connection to the same
\* peer ever carries it
OfflineRecipient ==
    [][/\ out'.op = "peer.error" =>
             /\ Len(out'.errs) = 1 /\ out'.errs[1] \in ErrorTypes
             /\ conns' = conns
       /\ \A c \in 1..Len(conns) : \A side \in {"a", "b"} :
             Len(Chats(conns'[c][side])) > Len(Chats(conns[c][side])) =>
                \/ /\ out'.op = "send" /\ out'.connects = <<>>
                   /\ conns[c][side].node = Local /\ conns[c][side].open
                   /\ \E k \in DOMAIN connections[Local] : connections[Local][k] = c
                \/ /\ out'.op = "conn.open"
                   /\ ~conns[c][side].open /\ conns'[c][side].open
                   /\ Chats(conns'[c][side]) = conns[c][side].queued]_vars

\* the transport reported 'peer-unavailable' while the connection send()
\* requested to bob is still pending with the envelope attached, and another
\* connection to bob is open on which no CHAT record was sent
UnreachableReported ==
    /\ out.op = "peer.error" /\ out.errs = <<"peer-unavailable">>
    /\ \E c \in 1..Len(conns) :
          /\ conns[c].via = "send" /\ conns[c].a.node = Local
          /\ ~conns[c].a.open /\ conns[c].a.queued # <<>>
          /\ \E d \in OpenTo(Local, conns[c].a.peer) :
                d # c /\ Chats(conns[d].a) = <<>> /\ Chats(conns[d].b) = <<>>

\* the derivation of NodeIds on its own
NodeIdNext == \E u, w \in Usernames : DeriveIds(u, w)

NodeIdSpec == Init /\ [][NodeIdNext]_vars

\* C12: for two usernames that are equal after trimming and lower-casing,
\* every place that derives a NodeId (init, connectToPeer, send, the
\* re-keying of setupConnection, the reachability check of the contact list)
\* yields one and the same NodeId
OneNodeId ==
    (idLab.stage = "derived"
       /\ toLowerCase(trim(idLab.a)) = toLowerCase(trim(idLab.b))) =>
        \A p, q \in Places : idLab.ida[p] = idLab.idb[q]

\* C13: once the 'close' or the 'error' event of a connection has been
\* handled on a device, no key of the device's registry maps to that
\* connection
NoStaleEntry ==
    [][out'.op \in {"conn.close", "conn.error"} =>
        \A c \in 1..Len(conns) : \A side \in {"a", "b"} :
            ConnClose(c, side) \/ ConnError(c, side) =>
                \A k \in DOMAIN connections'[conns[c][side].node] :
                    connections'[conns[c][side].node][k] # c]_vars

\* the inbound connections that arrived on the device as duplicates:
\* setupConnection returned without attaching handlers
Duplicates(n, cs) ==
    {c \in 1..Len(cs) : cs[c].b.node = n /\ cs[c].announced /\ ~cs[c].b.setup}

\* C14: an inbound connection from a peer id for which the registry holds an
\* open connection leaves the registry as it was, reports no error and gets
\* no handler; afterwards no record is sent on the duplicate, no registry key
\* maps to it, and the events of the duplicate leave the registry unchanged
DuplicateInbound ==
    [][/\ (/\ out'.op = "peer.connection" /\ Len(conns') = Len(conns) + 1
           /\ IsOpenIn(connections[Local], conns, Local, conns'[Len(conns')].b.peer)) =>
              /\ connections' = connections
              /\ out'.errs = <<>>
              /\ Len(conns') \in Duplicates(Local, conns')
       /\ \A c \in Duplicates(Local, conns) :
              /\ conns'[c].b.sent = <<>>
              /\ \A k \in DOMAIN connections'[Local] : connections'[Local][k] # c
              /\ \A side \in {"a", "b"} :
                    ConnOpen(c, side) \/ ConnClose(c, side) \/ ConnError(c, side) =>
                        connections' = connections]_vars

\* a duplicate inbound connection is open next to the registered open
\* connection for the same peer id
DuplicateOpen ==
    \E c \in Duplicates(Local, conns) :
        /\ conns[c].b.open
        /\ IsOpenIn(connections[Local], conns, Local, conns[c].b.peer)
        /\ connections[Local][conns[c].b.peer] # c

\* C15: connectToPeer requests no connection when the registry holds an open
\* connection for the derived NodeId.  When the target is not the device
\* itself, the registry holds no open connection for it and the device is not
\* Online, connectToPeer reports exactly one error to the error handlers,
\* requests no connection and leaves the registry and the connections as
\* they were
ConnectPreconditions ==
    [][out'.op = "connectToPeer" =>
        \A t \in TargetNames :
          ConnectToPeer(Local, t) =>
            /\ IsOpenIn(connections[Local], conns, Local, NodeIdOf(t)) =>
                  out'.connects = <<>> /\ conns' = conns
            /\ (/\ NodeIdOf(t) # myId[Local]
                /\ ~IsOpenIn(connections[Local], conns, Local, NodeIdOf(t))
                /\ ~isOnline[Local]) =>
                  /\ out'.errs = <<"offline">>
                  /\ out'.connects = <<>>
                  /\ conns' = conns
                  /\ connections' = connections]_vars

\* connectToPeer reported 'offline' on a device that holds a live handle but
\* is not Online
ConnectRefusedOffline ==
    /\ out.op = "connectToPeer" /\ out.errs = <<"offline">>
    /\ LiveHandle(Local) /\ ~isOnline[Local]

\* the device whose registry record carries the username
Identity(username) == CHOOSE m \in Nodes : NameOf(m) = username

\* C16: in every envelope sendMessage produced, encryptedSessionKey is the
\* session key (the key the content is sealed with) wrapped under the public
\* key of the identity named by recipientId: that identity's private key
\* unwraps it, and the sender's private key does not
WrappedForRecipient ==
    \A n \in Nodes : \A i \in SentBy(n) :
        LET d == messages[n][i].data IN
        /\ \E key \in SessionKeys :
              /\ encryptKeyWithRSA(key, UserOf(Identity(d.recipientId)).publicKey)
                   = Ok(d.encryptedSessionKey)
              /\ decryptKeyWithRSA(d.encryptedSessionKey, PairOf(Identity(d.recipientId)))
                   = Ok(key)
              /\ decryptWithAES(d.encryptedContent, key, d.iv).ok
        /\ ~decryptKeyWithRSA(d.encryptedSessionKey, PairOf(Identity(d.senderId))).ok

\* each device has produced an envelope for the other
BothHaveSent == SentBy("alice") # {} /\ SentBy("bob") # {}

\* one device against remote peers whose IDENTITY_EXCHANGE records carry any
\* public key
HandshakeNext ==
    \/ SessionStart(Local)
    \/ \E h \in 1..Len(peerObjs) : PeerOpen(h)
    \/ \E id \in RemoteIds : EnvInbound(Local, id)
    \/ ConnectToPeer(Local, NameOf("bob"))
    \/ \E c \in 1..Len(conns), side \in {"a", "b"} : ConnOpen(c, side)
    \/ \E c \in 1..Len(conns), side \in {"a", "b"}, data \in HandshakeRecords :
          EnvData(c, side, data)
    \/ \E c \in 1..Len(conns), side \in {"a", "b"} : ConnClose(c, side)
    \/ \E key \in SessionKeys : SendMessage(Local, <<104, 105>>, "bob", key, <<1, 2, 3>>)

HandshakeSpec == Init /\ [][HandshakeNext]_vars

\* C17: the state a received IDENTITY_EXCHANGE record leaves (registry,
\* message list, audit log, everything else) is the same whatever public key
\* the record carries, so runs that differ only in these keys stay in the same
\* states and produce the same envelopes; and the envelope sendMessage
\* produces wraps the session key under the public key of the recipient's
\* registry record
HandshakeKeyUnused ==
    [][/\ out'.op = "conn.data" =>
            \A c \in 1..Len(conns), side \in {"a", "b"}, data \in HandshakeRecords :
               EnvData(c, side, data) =>
                  \A other \in HandshakeRecords : EnvData(c, side, other)
       /\ out'.op = "sendMessage" =>
            \A i \in SentBy(Local)' :
               \E key \in SessionKeys :
                  messages'[Local][i].data.encryptedSessionKey =
                     encryptKeyWithRSA(key,
                        UserOf(Identity(messages'[Local][i].data.recipientId)).publicKey).v]_vars

\* an envelope for bob was produced after an IDENTITY_EXCHANGE record naming
\* bob had re-keyed the registry to a connection from another peer id
SentAfterHandshake ==
    /\ out.op = "sendMessage" /\ SentBy(Local) # {}
    /\ NodeIdOf(NameOf("bob")) \in DOMAIN connections[Local]
    /\ LET c == connections[Local][NodeIdOf(NameOf("bob"))]
       IN  conns[c][SideIn(conns, Local, c)].peer # NodeIdOf(NameOf("bob"))

\* C18: a CHAT record handed to the handler of an authenticated device has
\* exactly one of two outcomes: the envelope is appended to the message list
\* with the plaintext it opens to and no failure is logged, or a
\* decryption failure is logged and the message list is unchanged.  After a
\* failure the handler is still subscribed and the session is as it was, so
\* later records are processed
FailureIsolation ==
    [][(out'.op = "inject" /\ authState[out'.node].isAuthenticated) =>
         LET n == out'.node
             opened == Opened(wire.cur, authState[n].privateKey)
         IN  /\ \/ /\ opened.ok
                   /\ out'.logs = <<"INTEGRITY_CHECK">>
                   /\ messages'[n] = Append(messages[n],
                         [data |-> wire.cur, decryptedContent |-> opened.v,
                          received |-> TRUE])
                \/ /\ ~opened.ok
                   /\ out'.logs = <<"DECRYPTION_ERROR">>
                   /\ messages'[n] = messages[n]
             /\ "app" \in handlers'[n]
             /\ authState' = authState]_vars

\* the handler of an authenticated device logged a decryption failure for a
\* changed envelope and appended nothing
FailureLogged ==
    /\ out.op = "inject" /\ out.logs = <<"DECRYPTION_ERROR">>
    /\ authState[out.node].isAuthenticated
    /\ wire.cur # wire.orig
    /\ ReceivedBy(out.node) = {}

\* one device against remote peers that announce their usernames
IdentityNext ==
    \/ SessionStart(Local)
    \/ \E h \in 1..Len(peerObjs) : PeerOpen(h)
    \/ \E id \in RemoteIds : EnvInbound(Local, id)
    \/ ConnectToPeer(Local, NameOf("bob"))
    \/ \E c \in 1..Len(conns), side \in {"a", "b"} : ConnOpen(c, side)
    \/ \E c \in 1..Len(conns), side \in {"a", "b"}, data \in IdentityRecords :
          EnvData(c, side, data)
    \/ \E c \in 1..Len(conns), side \in {"a", "b"} : ConnClose(c, side)
    \/ \E c \in 1..Len(conns), side \in {"a", "b"} : ConnError(c, side)

IdentitySpec == Init /\ [][IdentityNext]_vars

\* C19: an IDENTITY_EXCHANGE record received on a connection with handlers
\* adds nothing to the chat message list, and when the subscribers are
\* notified getActiveConnections() contains the NodeId of the username the
\* record carries
IdentityHandled ==
    [][out'.op = "conn.data" =>
        \A c \in 1..Len(conns), side \in {"a", "b"}, data \in IdentityRecords :
           (EnvData(c, side, data) /\ conns[c][side].setup) =>
              /\ messages' = messages
              /\ NodeIdOf(data.username) \in getActiveConnections(Local)']_vars

\* C20: right after destroy() no reconnect timer is pending, every
\* connection the registry held is closed at the device's end, the registry
\* is empty, the transport handle is released and isOnline is false; a send()
\* issued next reports one 'transport' error, requests no connection and
\* sends nothing
DestroyPostcondition ==
    [][/\ out'.op = "destroy" =>
             /\ timers'[Local] = 0
             /\ \A c \in RegistryConns(Local) :
                   /\ conns'[c][SideIn(conns, Local, c)].closed
                   /\ ~conns'[c][SideIn(conns, Local, c)].open
             /\ connections'[Local] = EmptyMap
             /\ peer[Local] # 0 => peerObjs'[peer[Local]].destroyed
             /\ ~LiveHandle(Local)'
             /\ ~isOnline'[Local]
       /\ (out.op = "destroy" /\ out'.op = "send") =>
             /\ out'.errs = <<"transport">> /\ out'.calls = 1
             /\ out'.connects = <<>>
             /\ conns' = conns
             /\ connections' = connections]_vars

\* destroy() has cancelled a pending reconnect timer, released the handle and
\* closed a connection that had been set up
Destroyed ==
    /\ out.op = "destroy"
    /\ reconnectTimeout[Local] = "cleared" /\ timers[Local] = 0
    /\ peer[Local] # 0 /\ peerObjs[peer[Local]].destroyed
    /\ \E c \in 1..Len(conns) :
          conns[c][SideIn(conns, Local, c)].setup /\ conns[c][SideIn(conns, Local, c)].closed

\* C21: login does not depend on the case of the username or on the blanks
\* around it: when the registry holds an identity registered with username u
\* and password p, a login with p and an input that is u once trimmed and
\* lower-cased derives the master key of the registration, recovers the
\* registered private key and ends authenticated
LoginNormalized ==
    [][\A n \in Nodes, username \in FormNames, password \in FormPasswords, up \in BOOLEAN :
          (out'.op = "login" /\ Login(n, username, password, up)) =>
             LET userData == login(n, trim(username), up)
             IN  (/\ FormError(username, password) = ""
                  /\ userData.ok
                  /\ toLowerCase(trim(username)) = userData.v.username
                  /\ userData.v.passwordHash = computeHash(password)
                  /\ recoverPrivateKey(userData.v.encryptedPriv,
                         deriveKeyFromPassword(password, userData.v.username),
                         userData.v.privIv).ok)
                 => /\ deriveKeyFromPassword(password, trim(username))
                         = deriveKeyFromPassword(password, userData.v.username)
                    /\ authState'[n].isAuthenticated
                    /\ Ok(authState'[n].privateKey)
                         = recoverPrivateKey(userData.v.encryptedPriv,
                              deriveKeyFromPassword(password, userData.v.username),
                              userData.v.privIv)]_vars

\* the records of a store whose username is the given one once trimmed and lower-cased
Named(store, normalizedName) ==
    {i \in 1..Len(store) : trim(toLowerCase(store[i].username)) = normalizedName}

\* C25: usernames are unique in the registry: register does not get past its
\* collision check when the cloud store or the device's own store holds an
\* identity with the same trimmed, lower-cased username, and whatever the
\* order of the steps of register calls on the devices, the cloud store never
\* holds two identities with the same trimmed, lower-cased username
UniqueUsernames ==
    [][/\ \A n \in Nodes :
             (pending[n].stage = "none" /\ pending'[n].stage = "posting") =>
                 \E name \in {trim(toLowerCase(pending'[n].payload.username))} :
                     Named(cloud, name) = {} /\ Named(vault[n], name) = {}
       /\ \A i \in 1..Len(cloud') :
             Named(cloud', trim(toLowerCase(cloud'[i].username))) = {i}]_vars

\* what the device's end of connection c has sent in a state, nothing when the
\* connection does not exist yet
SentOn(cs, c, n) == IF c <= Len(cs) THEN cs[c][SideIn(cs, n, c)].sent ELSE <<>>
Ends(cs, n) == {c \in 1..Len(cs) : cs[c].a.node = n \/ cs[c].b.node = n}

\* C22: the handshake comes first: on a connection of the local device the
\* first record the device sends is the IDENTITY_EXCHANGE record of its user,
\* sent by the step that opens the connection, so no CHAT record goes out
\* before it; and a connection enters the registry under a key only when that
\* record has been sent on it
HandshakeFirst ==
    [][/\ \A c \in Ends(conns', Local) :
             (SentOn(conns, c, Local) = <<>> /\ SentOn(conns', c, Local) # <<>>) =>
                 /\ out'.op = "conn.open"
                 /\ ~conns[c][SideIn(conns, Local, c)].open
                 /\ SentOn(conns', c, Local)[1] = IdentityRecord(myUser[Local])
       /\ \A key \in DOMAIN connections'[Local] :
             (key \notin DOMAIN connections[Local]
                \/ connections[Local][key] # connections'[Local][key]) =>
                 \E sent \in {SentOn(conns', connections'[Local][key], Local)} :
                     sent # <<>> /\ sent[1].type = "IDENTITY_EXCHANGE"]_vars

\* a connection of the local device that is in the registry and on which a
\* CHAT record followed the identity record
ChatAfterHandshake ==
    \E key \in DOMAIN connections[Local] :
        \E sent \in {SentOn(conns, connections[Local][key], Local)} :
            /\ Len(sent) >= 2
            /\ sent[1] = IdentityRecord(myUser[Local])
            /\ sent[2].type = "CHAT"

\* C24: destroy() clears the reconnect state: after it the reconnectTimeout
\* field holds no timer handle and reconnectDelay is back at 1000 ms
ReconnectStateCleared ==
    [][out'.op = "destroy" =>
          /\ reconnectTimeout'[Local] = "null"
          /\ reconnectDelay'[Local] = Ticks(1000)]_vars

\* C23: a retry follows every drop: when the service is initialised and not
\* destroyed and handles a 'disconnected' event, a 'close' event or a
\* 'network' error, a reconnect timer is pending afterwards, so that the
\* attempt runs once the timer fires; this holds after any earlier init,
\* drop, reconnect attempt and destroy() followed by init()
RetryScheduled ==
    [][(/\ out'.node = Local
        /\ \/ out'.op \in {"peer.disconnected", "peer.close"}
           \/ out'.op = "peer.error" /\ out'.errs = <<"network">>
        /\ myUser[Local] # NoUser
        /\ ~isDestroyed[Local])
          => timers'[Local] > 0]_vars

\* C26: nothing is lost on an open connection: on every connection between
\* two devices that is open at both ends, each end has the handlers of
\* setupConnection attached, so that a CHAT record arriving there reaches the
\* message handlers; also when the connection was requested while the
\* registry of the other device still held an open connection for the requester
HandlersAttached ==
    \A c \in 1..Len(conns) :
        (/\ conns[c].a.node \in Nodes /\ conns[c].b.node \in Nodes
         /\ conns[c].a.open /\ conns[c].b.open)
            => conns[c].a.setup /\ conns[c].b.setup

\* the keys under which the registry of the device holds connection c
KeysOf(reg, c) == {key \in DOMAIN reg : reg[key] = c}

\* C27: cleanup removes the entry of the closing connection only: the 'close'
\* or 'error' event of a connection c of the local device leaves every
\* registry entry that maps to another connection in place; and a key under
\* which an open connection is registered leaves the registry only by that
\* connection's own 'close' or 'error' event, by a send() that failed on it,
\* or by destroy()
CleanupOwnEntry ==
    [][/\ out'.op \in {"conn.close", "conn.error"} /\ out'.node = Local =>
             \A c \in Ends(conns, Local) :
                 (ConnClose(c, SideIn(conns, Local, c)) \/ ConnError(c, SideIn(conns, Local, c)))
                     => \A d \in Ends(conns, Local) \ {c} :
                           KeysOf(connections[Local], d) \subseteq KeysOf(connections'[Local], d)
       /\ \A d \in Ends(conns, Local) :
             (/\ conns[d][SideIn(conns, Local, d)].open
              /\ ~(KeysOf(connections[Local], d) \subseteq DOMAIN connections'[Local]))
                 => \/ conns'[d][SideIn(conns, Local, d)].closed
                    \/ out'.op = "conn.error" /\ ConnError(d, SideIn(conns, Local, d))
                    \/ out'.op = "send" /\ "send-fail" \in {out'.errs[i] : i \in DOMAIN out'.errs}
                    \/ out'.op = "destroy"]_vars

\* the connections the device requested to peerId that are pending or open
Outbound(n, peerId) ==
    {c \in 1..Len(conns) :
        /\ conns[c].a.node = n /\ conns[c].a.peer = peerId
        /\ conns[c].via \in {"connectToPeer", "send", "retry"}
        /\ ~conns[c].a.closed}

\* C28: one outbound connection per peer: for every NodeId at most one
\* connection requested by the local device is pending or open, so
\* connectToPeer or send called again for a peer before the connection
\* requested first has opened requests no other one
OneOutbound ==
    \A c, d \in 1..Len(conns) :
        (c \in Outbound(Local, conns[c].a.peer) /\ d \in Outbound(Local, conns[c].a.peer))
            => c = d

\* C29: routing integrity: every key X of the registry of the local device
\* maps to a connection whose conn.peer is X, whatever IDENTITY_EXCHANGE
\* records were received, and every CHAT record the device has sent on a
\* connection is addressed to the NodeId that connection leads to
RoutingIntegrity ==
    /\ \A key \in DOMAIN connections[Local] :
          conns[connections[Local][key]][SideIn(conns, Local, connections[Local][key])].peer
              = key
    /\ \A c \in Ends(conns, Local) :
          \A i \in 1..Len(SentOn(conns, c, Local)) :
              SentOn(conns, c, Local)[i].type = "CHAT" =>
                  NodeIdOf(SentOn(conns, c, Local)[i].data.recipientId)
                      = conns[c][SideIn(conns, Local, c)].peer

\* the handles of the device that are not destroyed
LiveHandles(objs, n) == {h \in 1..Len(objs) : objs[h].owner = n /\ ~objs[h].destroyed}

\* C30: one live transport handle: the local device never has two handles
\* that are not destroyed; init() called while it has one changes neither the
\* id, the user, the handle, the registry nor the reconnect state; and a
\* handle is created, by init() or by the reconnect timer, only when the
\* device has none or the one it has is destroyed
SingleLiveHandle ==
    [][/\ Cardinality(LiveHandles(peerObjs', Local)) <= 1
       /\ (out'.op = "init" /\ out'.node = Local /\ LiveHandle(Local)) =>
             /\ myId'[Local] = myId[Local] /\ myUser'[Local] = myUser[Local]
             /\ peer'[Local] = peer[Local] /\ peerObjs' = peerObjs
             /\ isDestroyed'[Local] = isDestroyed[Local]
             /\ connections'[Local] = connections[Local]
             /\ reconnectDelay'[Local] = reconnectDelay[Local]
             /\ reconnectTimeout'[Local] = reconnectTimeout[Local]
             /\ timers'[Local] = timers[Local]
       /\ (\E h \in LiveHandles(peerObjs', Local) :
               h > Len(peerObjs) \/ peerObjs[h].destroyed) =>
             /\ ~LiveHandle(Local)
             /\ out'.op \in {"init", "timer"}]_vars

\* init() was called while the handle the reconnect timer created is live
InitOnReconnected ==
    /\ out.op = "init" /\ out.node = Local
    /\ LiveHandle(Local)
    /\ peerObjs[peer[Local]].ready = "noop"

\* C31: no operation connects the device to itself: no step of the local
\* device, connectToPeer or send() of an envelope whose recipientId gives the
\* device's own NodeId included, requests a connection whose target is myId
NoSelfConnection ==
    [][\A c \in (Len(conns) + 1)..Len(conns') :
          conns'[c].a.node = Local => conns'[c].a.peer # myId[Local]]_vars
====
